---- MODULE Spec2Model ----
(***************************************************************************)
(* Manifest ingestion pipeline of the HealthOmics observability sample:    *)
(* src/lambda/manifest/lambda_function.py, the workflow-registration       *)
(* handler, src/lambda/workflow/lambda_function.py, the run analyzer       *)
(* handler, src/lambda/run_analyzer_v2/lambda_function.py, and the replay  *)
(* script src/scripts/hydrate_workflow_records.py.                         *)
(*                                                                         *)
(* Python strings that the code inspects (stream names, arns, identifiers, *)
(* object keys) are sequences of one-character strings, so that prefix     *)
(* matching, substring search, split and ordering are computed.  Field     *)
(* names of records are TLA+ strings: the code only looks them up.         *)
(***************************************************************************)
EXTENDS Integers, Sequences, FiniteSets, TLC

(***************************************************************************)
(* Bounds of the model.                                                    *)
(***************************************************************************)
\* Most log events held by the whole log group.
MaxEvents == 2
\* Most streams the log service returns in one describe_log_streams page.
StreamPageMax == 2
\* Most events the log service returns in one get_log_events page.
EventPageMax == 1
\* The count of requests to a stubbed collaborator stops here.
MaxCalls == 4
\* Most streams a stubbed collaborator returns over all its pages.
MaxStubStreams == 3

(***************************************************************************)
(* Strings.                                                                *)
(***************************************************************************)
\* The characters the model uses, in code point order.
Alphabet ==
    << " ", "-", ".", "/", "0", "1", "2", "3", "4", "5", "6", "7", "8", "9",
       ":", "a", "b", "c", "e", "f", "i", "j", "k", "m", "n", "o", "r", "s",
       "t", "u", "w", "x" >>

CharCode(c) == CHOOSE i \in 1..Len(Alphabet) : Alphabet[i] = c

Min(a, b) == IF a < b THEN a ELSE b

\* str.startswith
StartsWith(s, p) ==
    /\ Len(p) <= Len(s)
    /\ \A i \in 1..Len(p) : s[i] = p[i]

\* sub in s
Contains(s, sub) ==
    \E k \in 0..(Len(s) - Len(sub)) : \A i \in 1..Len(sub) : s[k + i] = sub[i]

\* s < t in code point order
StrLess(s, t) ==
    \E k \in 1..(Len(t)) :
        /\ \A i \in 1..(k - 1) : i <= Len(s) /\ s[i] = t[i]
        /\ k - 1 <= Len(s)
        /\ (k > Len(s) \/ CharCode(s[k]) < CharCode(t[k]))

\* s.split('/')[-1]: what follows the last '/', the whole of s without one
LastSegment(s) ==
    LET slashes == { i \in 1..Len(s) : s[i] = "/" }
        last == IF slashes = {} THEN 0
                ELSE CHOOSE i \in slashes : \A j \in slashes : j <= i
    IN  SubSeq(s, last + 1, Len(s))

RECURSIVE SortDescending(_)
SortDescending(names) ==
    IF names = {} THEN << >>
    ELSE LET top == CHOOSE n \in names : \A o \in names \ {n} : StrLess(o, n)
         IN  << top >> \o SortDescending(names \ {top})

(***************************************************************************)
(* Python values: None, str, int, dict, list.                              *)
(***************************************************************************)
PyNull == [t |-> "null", v |-> << >>]
PyStr(chars) == [t |-> "str", v |-> chars]
PyInt(n) == [t |-> "int", v |-> n]
PyDict(f) == [t |-> "map", v |-> f]
PyList(s) == [t |-> "list", v |-> s]

Ok(x) == [ok |-> TRUE, val |-> x, err |-> "none"]
Raise(e) == [ok |-> FALSE, val |-> PyNull, err |-> e]

Digits == << "0", "1", "2", "3", "4", "5", "6", "7", "8", "9" >>

IsDigit(c) == \E d \in 1..10 : Digits[d] = c

DigitValue(c) == (CHOOSE d \in 1..10 : Digits[d] = c) - 1

RECURSIVE NatToChars(_)
NatToChars(n) ==
    IF n < 10 THEN << Digits[n + 1] >>
    ELSE NatToChars(n \div 10) \o << Digits[(n % 10) + 1] >>

RECURSIVE CharsToNat(_)
CharsToNat(s) ==
    IF s = << >> THEN 0
    ELSE 10 * CharsToNat(SubSeq(s, 1, Len(s) - 1)) + DigitValue(s[Len(s)])

\* str(value): a str is itself, an int its decimal digits, None is "None";
\* of a dict or list it is the text of repr(value), kept as that value
\* tagged as text.
StrOf(value) ==
    CASE value.t = "str" -> value
      [] value.t = "int" ->
            PyStr(IF value.v < 0 THEN << "-" >> \o NatToChars(0 - value.v)
                  ELSE NatToChars(value.v))
      [] value.t = "null" -> PyStr(<< "N", "o", "n", "e" >>)
      [] OTHER -> [t |-> "str", v |-> << "r", "e", "p", "r" >>, of |-> value]

\* int(value): an int is itself; a str is read as an optional sign and
\* digits (ValueError otherwise); None, a dict or a list is a TypeError.
IntOf(value) ==
    CASE value.t = "int" -> Ok(value)
      [] value.t = "str" ->
            LET s == value.v
                neg == Len(s) > 0 /\ s[1] = "-"
                body == IF Len(s) > 0 /\ s[1] \in {"-", "+"}
                        THEN SubSeq(s, 2, Len(s)) ELSE s
            IN  IF "of" \notin DOMAIN value
                   /\ Len(body) > 0
                   /\ \A i \in 1..Len(body) : IsDigit(body[i])
                THEN Ok(PyInt(IF neg THEN 0 - CharsToNat(body)
                              ELSE CharsToNat(body)))
                ELSE Raise("ValueError")
      [] OTHER -> Raise("TypeError")

(***************************************************************************)
(* Schema tables and convert_data_types.                                   *)
(***************************************************************************)
RUN_MANIFEST_SCHEMA ==
    [k \in {"arn", "creationTime", "digest", "failureReason", "metrics",
            "name", "outputUri", "parameterTemplate", "parameters",
            "resourceDigests", "roleArn", "startTime", "startedBy", "status",
            "statusMessage", "stopTime", "storageType", "uuid", "workflow"}
        |-> "str"]

TASK_MANIFEST_SCHEMA ==
    [k \in {"arn", "cpus", "creationTime", "failureReason", "gpus", "image",
            "instanceType", "memory", "metrics", "name", "run", "startTime",
            "status", "statusMessage", "stopTime", "uuid", "workflow"}
        |-> IF k \in {"cpus", "gpus", "memory"} THEN "int" ELSE "str"]

\* A variant that converts nothing.
ConvertFieldKeep(value, target_type) == Ok(value)

\* target_type(value) under the try of convert_data_types: a ValueError is
\* caught and leaves the value as it was, any other exception propagates.
ConvertField(value, target_type) ==
    IF value.t = "null" THEN Ok(PyNull)
    ELSE IF target_type = "str" THEN Ok(StrOf(value))
    ELSE LET r == IntOf(value)
         IN  IF r.ok THEN r
             ELSE IF r.err = "ValueError" THEN Ok(value)
             ELSE r

\* A variant that turns every field into text, in the schema or not.
ConvertEveryField(data, type_mapping) ==
    IF data.t = "map"
    THEN Ok(PyDict([key \in DOMAIN data.v |-> StrOf(data.v[key])]))
    ELSE Ok(data)

\* A variant that coerces the fields of the record itself and does not
\* recurse.
ConvertTopLevelOnly(data, type_mapping) ==
    IF data.t # "map" THEN Ok(data)
    ELSE LET res == [key \in DOMAIN data.v |->
                       IF key \in DOMAIN type_mapping
                       THEN ConvertField(data.v[key], type_mapping[key])
                       ELSE Ok(data.v[key])]
         IN  IF \A key \in DOMAIN res : res[key].ok
             THEN Ok(PyDict([key \in DOMAIN res |-> res[key].val]))
             ELSE Raise("TypeError")

RECURSIVE convert_data_types(_, _)
convert_data_types(data, type_mapping) ==
    IF data.t = "map" THEN
        LET res == [key \in DOMAIN data.v |->
                      IF key \in DOMAIN type_mapping
                      THEN ConvertField(data.v[key], type_mapping[key])
                      ELSE IF data.v[key].t \in {"map", "list"}
                      THEN convert_data_types(data.v[key], type_mapping)
                      ELSE Ok(data.v[key])]
        IN  IF \A key \in DOMAIN res : res[key].ok
            THEN Ok(PyDict([key \in DOMAIN res |-> res[key].val]))
            ELSE Raise("TypeError")
    ELSE IF data.t = "list" THEN
        LET res == [i \in DOMAIN data.v |->
                      IF data.v[i].t \in {"map", "list"}
                      THEN convert_data_types(data.v[i], type_mapping)
                      ELSE Ok(data.v[i])]
        IN  IF \A i \in DOMAIN res : res[i].ok
            THEN Ok(PyList([i \in DOMAIN res |-> res[i].val]))
            ELSE Raise("TypeError")
    ELSE Ok(data)

(***************************************************************************)
(* Continuation tokens.  Python's None and the empty string are both       *)
(* falsy: `if next_token` and `not next_token` treat them alike.           *)
(***************************************************************************)
NoToken == [isNone |-> TRUE, s |-> << >>]
Token(s) == [isNone |-> FALSE, s |-> s]
Truthy(tok) == ~tok.isNone /\ tok.s # << >>

(***************************************************************************)
(* find_log_streams_by_prefix: the loop, one describe_log_streams request  *)
(* per step.  limit = 0 stands for a limit that is None (or 0): `if limit` *)
(* is false for both.                                                      *)
(***************************************************************************)
LocatorInit(prefix, limit) ==
    [ prefix |-> prefix, limit |-> limit, all_streams |-> << >>,
      next_token |-> NoToken, sent |-> NoToken, done |-> FALSE ]

\* The params of the next request: nextToken is set only from a truthy
\* next_token, and then stays in params.
LocatorRequest(st) ==
    [ prefix |-> st.prefix, limit |-> st.limit,
      nextToken |-> IF Truthy(st.next_token) THEN st.next_token ELSE st.sent ]

\* A variant that asks again while nothing was found.
LocatorBreaksRetry(next_token, limit, all_streams) ==
    /\ all_streams # << >>
    /\ (~Truthy(next_token) \/ (limit # 0 /\ Len(all_streams) >= limit))

\* `if not next_token or (limit and len(all_streams) >= limit): break`
LocatorBreaks(next_token, limit, all_streams) ==
    \/ ~Truthy(next_token)
    \/ (limit # 0 /\ Len(all_streams) >= limit)

\* A variant that puts the newest page first.
LocatorStepNewestFirst(st, response) ==
    LET streams == response.logStreams \o st.all_streams
    IN  [ st EXCEPT !.sent = LocatorRequest(st).nextToken,
                    !.all_streams = streams,
                    !.next_token = response.nextToken,
                    !.done = LocatorBreaks(response.nextToken, st.limit, streams) ]

\* One pass of the while loop, given the collaborator's response.
LocatorStep(st, response) ==
    LET streams == st.all_streams \o response.logStreams
    IN  [ st EXCEPT !.sent = LocatorRequest(st).nextToken,
                    !.all_streams = streams,
                    !.next_token = response.nextToken,
                    !.done = LocatorBreaks(response.nextToken, st.limit, streams) ]

\* A variant that returns all it accumulated.
LocatorResultUncut(st) == st.all_streams

\* `if limit and len(all_streams) > limit: all_streams = all_streams[:limit]`
LocatorResult(st) ==
    IF st.limit # 0 /\ Len(st.all_streams) > st.limit
    THEN SubSeq(st.all_streams, 1, st.limit)
    ELSE st.all_streams

(***************************************************************************)
(* get_log_events_by_stream_prefix: the event pagination of one stream,    *)
(* one get_log_events request per step.                                    *)
(***************************************************************************)
EventsInit ==
    [ stream_events |-> << >>, next_token |-> NoToken, sent |-> NoToken,
      done |-> FALSE ]

\* A variant that never sends a token.
EventsRequestNoToken(st) == [ nextToken |-> NoToken ]

EventsRequest(st) ==
    [ nextToken |-> IF Truthy(st.next_token) THEN st.next_token ELSE st.sent ]

\* A variant without the test for a repeated token.
EventsBreaksNoRepeat(next_token, sent) == ~Truthy(next_token)

\* `if not next_token or next_token == params.get('nextToken'): break`
EventsBreaks(next_token, sent) ==
    \/ ~Truthy(next_token)
    \/ next_token = sent

EventsStep(st, response) ==
    LET sent == EventsRequest(st).nextToken
    IN  [ st EXCEPT !.sent = sent,
                    !.stream_events = st.stream_events \o response.events,
                    !.next_token = response.nextForwardToken,
                    !.done = EventsBreaks(response.nextForwardToken, sent) ]

(***************************************************************************)
(* The log service the handler queries (boto3 logs client): streams are    *)
(* returned by name, descending, in pages; a token is the offset reached.  *)
(* get_log_events always returns a forward token, equal to the one sent    *)
(* once the end of the stream is reached.                                  *)
(***************************************************************************)
TokenOffset(tok) == IF tok.isNone THEN 0 ELSE CharsToNat(tok.s)

DescribeLogStreams(group, request) ==
    LET matching == SortDescending(
                        { n \in DOMAIN group : StartsWith(n, request.prefix) })
        offset == TokenOffset(request.nextToken)
        size == IF request.limit # 0 THEN Min(request.limit, StreamPageMax)
                ELSE StreamPageMax
        upto == Min(offset + size, Len(matching))
    IN  [ logStreams |-> [i \in 1..(upto - offset) |->
                            [logStreamName |-> matching[offset + i]]],
          nextToken |-> IF upto < Len(matching) THEN Token(NatToChars(upto))
                        ELSE NoToken ]

GetLogEvents(group, stream_name, request) ==
    LET all == group[stream_name]
        offset == TokenOffset(request.nextToken)
        upto == Min(offset + EventPageMax, Len(all))
    IN  [ events |-> [i \in 1..(upto - offset) |-> [message |-> all[offset + i]]],
          nextForwardToken |-> Token(NatToChars(upto)) ]

(***************************************************************************)
(* Inputs: stream names, log messages, inbound events, configuration.      *)
(***************************************************************************)
\* "manifest/run/"
ManifestRunPrefix ==
    << "m", "a", "n", "i", "f", "e", "s", "t", "/", "r", "u", "n", "/" >>

\* Streams of run 1 (one name extending the other) and of run 12.
StreamNames ==
    { ManifestRunPrefix \o << "1", "/", "a" >>,
      ManifestRunPrefix \o << "1", "/", "a", "b" >>,
      ManifestRunPrefix \o << "1", "2", "/", "a" >> }

RunIds == { << "1" >>, << "1", "2" >> }

JsonText(doc) == [json |-> TRUE, doc |-> doc]
Garbage == [json |-> FALSE, doc |-> PyNull]

Manifest(arn) ==
    JsonText(PyDict([ arn |-> PyStr(arn),
                      cpus |-> PyStr(<< "4" >>),
                      digest |-> PyInt(5) ]))

\* Messages a stream may hold: run manifests of runs 1 and 12, a task
\* manifest, a manifest of neither kind, one whose arn has both markers,
\* and text that is not JSON.
Messages ==
    { Manifest(<< "a", ":", "r", "u", "n", "/", "1" >>),
      Manifest(<< "a", ":", "r", "u", "n", "/", "1", "2" >>),
      Manifest(<< "a", ":", "t", "a", "s", "k", "/", "7" >>),
      Manifest(<< "a", ":", "w", "f", "/", "3" >>),
      Manifest(<< "a", ":", "r", "u", "n", "/", "1", ":", "t", "a", "s", "k", "/", "7" >>),
      Garbage }

RECURSIVE SeqsOfLen(_, _)
SeqsOfLen(S, n) ==
    IF n = 0 THEN { << >> }
    ELSE { Append(q, x) : q \in SeqsOfLen(S, n - 1), x \in S }

SeqsUpTo(S, n) == UNION { SeqsOfLen(S, k) : k \in 0..n }

\* Every log group over `names` that holds at most `budget` events.
RECURSIVE LogGroups(_, _)
LogGroups(names, budget) ==
    IF names = {} THEN { << >> }
    ELSE LET n == CHOOSE x \in names : TRUE
         IN  LogGroups(names \ {n}, budget)
             \cup UNION { { [x \in DOMAIN g \cup {n} |-> IF x = n THEN q ELSE g[x]]
                            : g \in LogGroups(names \ {n}, budget - Len(q)) }
                          : q \in SeqsUpTo(Messages, budget) }

NoFields == [k \in {} |-> PyNull]

\* Inbound events: without detail, with a detail that has no runId, and
\* with detail.runId.
Events ==
    { PyDict(NoFields),
      PyDict([detail |-> PyDict([status |-> PyStr(<< "x" >>)])]) }
    \cup { PyDict([detail |-> PyDict([runId |-> PyStr(r)])]) : r \in RunIds }

\* S3_PREFIX: unset (the default '') or "manifest".
Prefixes == { << >>, << "m", "a", "n", "i", "f", "e", "s", "t" >> }

(***************************************************************************)
(* lambda_handler: the pure parts.                                         *)
(***************************************************************************)
\* A variant that reads the identifier with .get(): a missing field is None.
ExtractRunIdLenient(ev) ==
    IF "detail" \in DOMAIN ev.v /\ "runId" \in DOMAIN ev.v["detail"].v
    THEN Ok(ev.v["detail"].v["runId"])
    ELSE Ok(PyNull)

\* event['detail']['runId'] under `except KeyError`
ExtractRunId(ev) ==
    IF ev.t # "map" THEN Raise("TypeError")
    ELSE IF "detail" \notin DOMAIN ev.v THEN Raise("KeyError")
    ELSE IF ev.v["detail"].t # "map" THEN Raise("TypeError")
    ELSE IF "runId" \notin DOMAIN ev.v["detail"].v THEN Raise("KeyError")
    ELSE Ok(ev.v["detail"].v["runId"])

\* json.loads(event['message'])
JsonLoads(message) ==
    IF message.json THEN Ok(message.doc) ELSE Raise("JSONDecodeError")

RunMarker == << ":", "r", "u", "n", "/" >>
TaskMarker == << ":", "t", "a", "s", "k", "/" >>

\* A variant whose else branch handles the record as a task manifest.
ClassifyLenient(arn) ==
    IF Contains(arn, RunMarker) THEN "Run" ELSE "Task"

\* A variant that tests the task marker first.
ClassifyTaskFirst(arn) ==
    IF Contains(arn, TaskMarker) THEN "Task"
    ELSE IF Contains(arn, RunMarker) THEN "Run"
    ELSE "Unknown"

\* The if / elif / else on event_message['arn']
Classify(arn) ==
    IF Contains(arn, RunMarker) THEN "Run"
    ELSE IF Contains(arn, TaskMarker) THEN "Task"
    ELSE "Unknown"

\* f"{S3_PREFIX}/runs/{run_id}.json"
S3KeyRun(prefix, run_id) ==
    prefix \o << "/", "r", "u", "n", "s", "/" >> \o run_id
           \o << ".", "j", "s", "o", "n" >>

\* f"{S3_PREFIX}/tasks/{task_id}.json"
S3KeyTask(prefix, task_id) ==
    prefix \o << "/", "t", "a", "s", "k", "s", "/" >> \o task_id
           \o << ".", "j", "s", "o", "n" >>

\* A variant that coerces every record with the run schema.
SchemaForRunOnly(kind) == RUN_MANIFEST_SCHEMA

\* The schema the handler coerces a record of class `kind` with.
SchemaFor(kind) ==
    IF kind = "Run" THEN RUN_MANIFEST_SCHEMA ELSE TASK_MANIFEST_SCHEMA

\* A variant that takes the task key whenever the arn has the task marker.
DestinationKeyByTaskMarker(kind, prefix, run_id, arn) ==
    IF Contains(arn, TaskMarker) THEN S3KeyTask(prefix, LastSegment(arn))
    ELSE S3KeyRun(prefix, run_id)

\* The key the handler writes a record of class `kind` with arn `arn` at.
DestinationKey(kind, prefix, run_id, arn) ==
    IF kind = "Run" THEN S3KeyRun(prefix, run_id)
    ELSE S3KeyTask(prefix, LastSegment(arn))

\* The body of the inner for loop up to the put: the write it asks for, or
\* the exception that ends the invocation.
HandleMessage(message, prefix, run_id) ==
    LET parsed == JsonLoads(message)
        doc == parsed.val
    IN  IF ~parsed.ok THEN Raise(parsed.err)
        ELSE IF doc.t # "map" THEN Raise("TypeError")
        ELSE IF "arn" \notin DOMAIN doc.v THEN Raise("KeyError")
        ELSE IF doc.v["arn"].t # "str" THEN Raise("TypeError")
        ELSE LET arn == doc.v["arn"].v
                 kind == Classify(arn)
                 coerced == convert_data_types(doc, SchemaFor(kind))
             IN  IF kind = "Unknown" THEN Raise("RuntimeError")
                 ELSE IF ~coerced.ok THEN Raise(coerced.err)
                 ELSE Ok([ kind |-> kind,
                           key |-> DestinationKey(kind, prefix, run_id, arn),
                           body |-> coerced.val ])

\* A variant that takes the last stream found.
SelectedStreamLast(found) == found[Len(found)]

\* `stream = streams[0]`
SelectedStream(found) == found[1]

\* `if len(streams) > 1: logger.warning(...)`
ShouldWarn(found) == Len(found) > 1

\* all_events[stream_name] = stream_events, on a dict kept in insertion order
PutBucket(all_events, name, stream_events) ==
    IF \E i \in 1..Len(all_events) : all_events[i].name = name
    THEN [i \in 1..Len(all_events) |->
            IF all_events[i].name = name
            THEN [name |-> name, events |-> stream_events]
            ELSE all_events[i]]
    ELSE Append(all_events, [name |-> name, events |-> stream_events])

\* A variant that visits the events of a stream last first.
RECURSIVE FlattenLastFirst(_)
FlattenLastFirst(all_events) ==
    IF all_events = << >> THEN << >>
    ELSE LET n == Len(Head(all_events).events)
         IN  [i \in 1..n |->
                [ name |-> Head(all_events).name,
                  message |-> Head(all_events).events[n + 1 - i].message ]]
             \o FlattenLastFirst(Tail(all_events))

\* The events in the order the nested for loops of the handler visit them.
RECURSIVE Flatten(_)
Flatten(all_events) ==
    IF all_events = << >> THEN << >>
    ELSE [i \in 1..Len(Head(all_events).events) |->
            [ name |-> Head(all_events).name,
              message |-> Head(all_events).events[i].message ]]
         \o Flatten(Tail(all_events))

\* A variant that appends to an object already there.
S3PutMerge(objects, key, body) ==
    [k \in DOMAIN objects \cup {key} |->
        IF k # key THEN objects[k]
        ELSE IF key \in DOMAIN objects THEN PyList(<< objects[key], body >>)
        ELSE body]

\* s3_object.put(Body=...): a full overwrite of the object at the key
S3Put(objects, key, body) ==
    [k \in DOMAIN objects \cup {key} |-> IF k = key THEN body ELSE objects[k]]

(***************************************************************************)
(* State.                                                                  *)
(***************************************************************************)
VARIABLES
    event,          \* the inbound event of the invocation
    bucketSet,      \* whether DATA_LAKE_BUCKET is in the environment
    S3_PREFIX,      \* os.environ.get('S3_PREFIX', '')
    logGroup,       \* the log service: stream name -> its messages
    store,          \* the bucket: key -> body
    pc,             \* where the handler is
    run_id,         \* lambda_handler: run_id
    loc,            \* find_log_streams_by_prefix: the loop's locals
    streams,        \* lambda_handler: streams
    stream,         \* lambda_handler: stream
    agg_streams,    \* get_log_events_by_stream_prefix: streams
    sidx,           \* get_log_events_by_stream_prefix: index of the stream in turn
    evs,            \* get_log_events_by_stream_prefix: the inner loop's locals
    all_events,     \* get_log_events_by_stream_prefix: all_events
    pos,            \* lambda_handler: index of the event in turn
    result,         \* what the handler returned (statusCode 0: nothing yet)
    err,            \* the exception that ended the invocation
    warned,         \* logger.warning was called in this invocation
    lookups,        \* calls of find_log_streams_by_prefix in this invocation
    describes,      \* describe_log_streams requests in this invocation
    fetched,        \* get_log_events requests in this invocation, by stream
    writes,         \* every put so far: invocation, event index, key, body
    invocation,     \* 1, or 2 once the event was redelivered
    first,          \* what the first invocation left, once it ended
    stub,           \* the tokens a stubbed collaborator answers with
    calls,          \* requests made to a stubbed collaborator (stops at MaxCalls)
    data,           \* convert_data_types: the record it is called with
    type_mapping,   \* convert_data_types: the schema it is called with
    converted,      \* convert_data_types: what the call returned or raised
    failed_puts,    \* every put that raised: invocation, event index, key
    peer,           \* the locals of a concurrent invocation while the other runs
    workflow_id,    \* workflow lambda_handler: workflow_id
    workflow_name,  \* workflow lambda_handler: workflow_name
    item,           \* workflow lambda_handler: item
    file_name,      \* workflow lambda_handler: file_name
    omics_calls,    \* every request to the execution service (omics client)
    pages,          \* the non-empty pages a stubbed describe_log_streams answered with
    output_file_name,   \* run analyzer handler: output_file_name
    output_file,        \* whether run_analyzer_main wrote the file under /tmp
    printed,            \* what upload_file_to_s3 printed
    payloads_to_invoke, \* replay script: payloads_to_invoke
    next_payload,       \* replay script: index of the payload in turn
    invoked,            \* replay script: what invoke_lambda_and_wait returned, per payload
    failed_payloads     \* replay script: failed_payloads

vars ==
    << event, bucketSet, S3_PREFIX, logGroup, store, pc, run_id, loc, streams,
       stream, agg_streams, sidx, evs, all_events, pos, result, err, warned,
       lookups, describes, fetched, writes, invocation, first, stub, calls,
       data, type_mapping, converted, failed_puts, peer, workflow_id,
       workflow_name, item, file_name, omics_calls, pages, output_file_name,
       output_file, printed, payloads_to_invoke, next_payload, invoked,
       failed_payloads >>

\* convert_data_types called on its own.
coerceVars == << data, type_mapping, converted >>

\* What only the specifications other than Spec change.
\* The locals of the workflow lambda_handler and its requests.
workflowVars == << workflow_id, workflow_name, item, file_name, omics_calls >>

\* The locals of the run analyzer handler and what it printed.
analyzerVars == << output_file_name, output_file, printed >>

\* The locals of a replay script's main.
replayVars == << payloads_to_invoke, next_payload, invoked, failed_payloads >>

restVars == << pages, analyzerVars, replayVars >>

others == << coerceVars, failed_puts, peer, workflowVars, restVars >>

inputs == << event, bucketSet, S3_PREFIX, logGroup, stub, calls, others >>

NoStream == [logStreamName |-> << >>]
NoResult == [statusCode |-> 0, body |-> << >>]
NoFirst == [ended |-> FALSE, store |-> << >>, pc |-> "", result |-> NoResult,
            err |-> "none"]
NotCalled == [ok |-> FALSE, val |-> PyNull, err |-> "not called"]

\* convert_data_types is not called on its own.
CoerceIdle ==
    /\ data = PyNull
    /\ type_mapping = << >>
    /\ converted = NotCalled

\* The locals of an invocation that has not started.
NoPeer ==
    [ pc |-> "start", run_id |-> << >>, loc |-> LocatorInit(<< >>, 0),
      streams |-> << >>, stream |-> NoStream, agg_streams |-> << >>,
      sidx |-> 0, evs |-> EventsInit, all_events |-> << >>, pos |-> 0,
      result |-> NoResult, err |-> "none", warned |-> FALSE, lookups |-> 0,
      describes |-> 0, fetched |-> << >> ]

\* The workflow lambda_handler is not invoked.
WorkflowIdle ==
    /\ workflow_id = << >>
    /\ workflow_name = PyNull
    /\ item = PyDict(NoFields)
    /\ file_name = << >>
    /\ omics_calls = << >>

\* The run analyzer handler is not invoked.
AnalyzerIdle ==
    /\ output_file_name = << >>
    /\ output_file = FALSE
    /\ printed = << >>

\* No replay script runs.
ReplayIdle ==
    /\ payloads_to_invoke = << >>
    /\ next_payload = 0
    /\ invoked = << >>
    /\ failed_payloads = << >>

RestIdle ==
    /\ pages = << >>
    /\ AnalyzerIdle
    /\ ReplayIdle

OthersIdle ==
    /\ CoerceIdle
    /\ failed_puts = << >>
    /\ peer = NoPeer
    /\ WorkflowIdle
    /\ RestIdle

\* The handler's locals before an invocation.
Fresh ==
    /\ pc = "start"
    /\ run_id = << >>
    /\ loc = LocatorInit(<< >>, 0)
    /\ streams = << >>
    /\ stream = NoStream
    /\ agg_streams = << >>
    /\ sidx = 0
    /\ evs = EventsInit
    /\ all_events = << >>
    /\ pos = 0
    /\ result = NoResult
    /\ err = "none"
    /\ warned = FALSE
    /\ lookups = 0
    /\ describes = 0
    /\ fetched = << >>

\* The same locals, as the next state's.
FreshNext ==
    /\ pc' = "start"
    /\ run_id' = << >>
    /\ loc' = LocatorInit(<< >>, 0)
    /\ streams' = << >>
    /\ stream' = NoStream
    /\ agg_streams' = << >>
    /\ sidx' = 0
    /\ evs' = EventsInit
    /\ all_events' = << >>
    /\ pos' = 0
    /\ result' = NoResult
    /\ err' = "none"
    /\ warned' = FALSE
    /\ lookups' = 0
    /\ describes' = 0
    /\ fetched' = << >>

Init ==
    /\ event \in Events
    /\ bucketSet \in BOOLEAN
    /\ S3_PREFIX \in Prefixes
    /\ logGroup \in LogGroups(StreamNames, MaxEvents)
    /\ store = << >>
    /\ Fresh
    /\ writes = << >>
    /\ invocation = 1
    /\ first = NoFirst
    /\ stub = {}
    /\ calls = 0
    /\ OthersIdle

(***************************************************************************)
(* lambda_handler, one step per request to a collaborator.                 *)
(***************************************************************************)
\* The limit lambda_handler gives find_log_streams_by_prefix.
HandlerLimit == 10
\* max_streams lambda_handler gives get_log_events_by_stream_prefix.
HandlerMaxStreams == 1

\* A variant that goes on without the bucket name.
LoadConfigLenient(bucket_set) == Ok(PyNull)

\* Lines 248-252: os.environ['DATA_LAKE_BUCKET'] raises KeyError when the
\* variable is unset, which is raised again as ValueError; S3_PREFIX has a
\* default.
LoadConfig(bucket_set) ==
    IF bucket_set THEN Ok(PyNull) ELSE Raise("ValueError")

\* json.dumps('Missing required event detail'): the text in double quotes
MissingDetailBody ==
    << "\"", "M", "i", "s", "s", "i", "n", "g", " ", "r", "e", "q", "u", "i",
       "r", "e", "d", " ", "e", "v", "e", "n", "t", " ", "d", "e", "t", "a",
       "i", "l", "\"" >>

\* Lines 246-283: configuration, the run identifier, the call of the Locator.
HandlerStart ==
    /\ pc = "start"
    /\ IF ~LoadConfig(bucketSet).ok
       THEN /\ pc' = "raised"
            /\ err' = LoadConfig(bucketSet).err
            /\ UNCHANGED << run_id, loc, lookups, result >>
       ELSE LET got == ExtractRunId(event)
            IN  IF got.ok
                THEN /\ run_id' = StrOf(got.val).v
                     /\ loc' = LocatorInit(ManifestRunPrefix \o StrOf(got.val).v,
                                           HandlerLimit)
                     /\ lookups' = lookups + 1
                     /\ pc' = "locate"
                     /\ UNCHANGED << err, result >>
                ELSE IF got.err = "KeyError"
                THEN /\ result' = [statusCode |-> 400, body |-> MissingDetailBody]
                     /\ pc' = "returned"
                     /\ UNCHANGED << run_id, loc, lookups, err >>
                ELSE /\ pc' = "raised"
                     /\ err' = got.err
                     /\ UNCHANGED << run_id, loc, lookups, result >>
    /\ UNCHANGED << inputs, store, streams, stream, agg_streams, sidx, evs,
                    all_events, pos, warned, describes, fetched, writes,
                    invocation, first >>

\* Lines 130-150 inside the call of line 276: one describe_log_streams
\* request; the loop's break returns the streams to the handler.
HandlerLocate ==
    /\ pc = "locate"
    /\ LET next == LocatorStep(loc, DescribeLogStreams(logGroup, LocatorRequest(loc)))
       IN  /\ loc' = next
           /\ describes' = describes + 1
           /\ IF next.done
              THEN /\ streams' = LocatorResult(next)
                   /\ pc' = "select"
              ELSE UNCHANGED << streams, pc >>
    /\ UNCHANGED << inputs, store, run_id, stream, agg_streams, sidx, evs,
                    all_events, pos, result, err, warned, lookups, fetched,
                    writes, invocation, first >>

\* A variant that answers an empty list of streams with a result of
\* statusCode 500.
HandlerSelectGuarded ==
    /\ pc = "select"
    /\ warned' = ShouldWarn(streams)
    /\ IF streams = << >>
       THEN /\ pc' = "returned"
            /\ result' = [statusCode |-> 500, body |-> << >>]
            /\ UNCHANGED << stream, loc, lookups >>
       ELSE /\ stream' = SelectedStream(streams)
            /\ loc' = LocatorInit(SelectedStream(streams).logStreamName,
                                  HandlerMaxStreams)
            /\ lookups' = lookups + 1
            /\ pc' = "agg_locate"
            /\ UNCHANGED result
    /\ UNCHANGED << inputs, store, run_id, streams, agg_streams, sidx, evs,
                    all_events, pos, err, describes, fetched, writes,
                    invocation, first >>

\* Lines 285-298 and 178-186: the warning, streams[0], and the call of the
\* Aggregator, which starts with a Locator call of its own.
HandlerSelect ==
    /\ pc = "select"
    /\ warned' = ShouldWarn(streams)
    /\ IF streams = << >>
       THEN /\ pc' = "raised"
            /\ err' = "IndexError"
            /\ UNCHANGED << stream, loc, lookups >>
       ELSE /\ stream' = SelectedStream(streams)
            /\ loc' = LocatorInit(SelectedStream(streams).logStreamName,
                                  HandlerMaxStreams)
            /\ lookups' = lookups + 1
            /\ pc' = "agg_locate"
            /\ UNCHANGED err
    /\ UNCHANGED << inputs, store, run_id, streams, agg_streams, sidx, evs,
                    all_events, pos, result, describes, fetched, writes,
                    invocation, first >>

\* Lines 130-150 inside the call of line 178, then lines 198-220.
HandlerAggLocate ==
    /\ pc = "agg_locate"
    /\ LET next == LocatorStep(loc, DescribeLogStreams(logGroup, LocatorRequest(loc)))
       IN  /\ loc' = next
           /\ describes' = describes + 1
           /\ IF ~next.done
              THEN UNCHANGED << agg_streams, sidx, evs, all_events, pos, pc >>
              ELSE /\ agg_streams' = LocatorResult(next)
                   /\ all_events' = << >>
                   /\ evs' = EventsInit
                   /\ IF LocatorResult(next) = << >>
                      THEN /\ pc' = "process"
                           /\ pos' = 1
                           /\ UNCHANGED sidx
                      ELSE /\ pc' = "agg_events"
                           /\ sidx' = 1
                           /\ UNCHANGED pos
    /\ UNCHANGED << inputs, store, run_id, streams, stream, result, err, warned,
                    lookups, fetched, writes, invocation, first >>

\* Lines 223-241: one get_log_events request for the stream in turn; the
\* loop's break stores the bucket and moves to the next stream, or returns.
HandlerAggEvents ==
    /\ pc = "agg_events"
    /\ LET name == agg_streams[sidx].logStreamName
           next == EventsStep(evs, GetLogEvents(logGroup, name, EventsRequest(evs)))
       IN  /\ fetched' = Append(fetched, name)
           /\ IF ~next.done
              THEN /\ evs' = next
                   /\ UNCHANGED << all_events, sidx, pos, pc >>
              ELSE /\ all_events' = PutBucket(all_events, name, next.stream_events)
                   /\ evs' = EventsInit
                   /\ IF sidx < Len(agg_streams)
                      THEN /\ sidx' = sidx + 1
                           /\ UNCHANGED << pos, pc >>
                      ELSE /\ pc' = "process"
                           /\ pos' = 1
                           /\ UNCHANGED sidx
    /\ UNCHANGED << inputs, store, run_id, loc, streams, stream, agg_streams,
                    result, err, warned, lookups, describes, writes,
                    invocation, first >>

\* A variant that empties the bucket when an event cannot be processed.
HandlerProcessRollsBack ==
    /\ pc = "process"
    /\ pos <= Len(Flatten(all_events))
    /\ LET todo == HandleMessage(Flatten(all_events)[pos].message, S3_PREFIX, run_id)
       IN  IF todo.ok
           THEN /\ store' = S3Put(store, todo.val.key, todo.val.body)
                /\ writes' = Append(writes, [ invocation |-> invocation,
                                              pos |-> pos,
                                              kind |-> todo.val.kind,
                                              key |-> todo.val.key,
                                              body |-> todo.val.body ])
                /\ pos' = pos + 1
                /\ UNCHANGED << pc, err >>
           ELSE /\ pc' = "raised"
                /\ err' = todo.err
                /\ store' = << >>
                /\ UNCHANGED << writes, pos >>
    /\ UNCHANGED << inputs, run_id, loc, streams, stream, agg_streams, sidx,
                    evs, all_events, result, warned, lookups, describes,
                    fetched, invocation, first >>

\* Lines 304-318: one event: parse, classify, coerce, put.
HandlerProcess ==
    /\ pc = "process"
    /\ pos <= Len(Flatten(all_events))
    /\ LET todo == HandleMessage(Flatten(all_events)[pos].message, S3_PREFIX, run_id)
       IN  IF todo.ok
           THEN /\ store' = S3Put(store, todo.val.key, todo.val.body)
                /\ writes' = Append(writes, [ invocation |-> invocation,
                                              pos |-> pos,
                                              kind |-> todo.val.kind,
                                              key |-> todo.val.key,
                                              body |-> todo.val.body ])
                /\ pos' = pos + 1
                /\ UNCHANGED << pc, err >>
           ELSE /\ pc' = "raised"
                /\ err' = todo.err
                /\ UNCHANGED << store, writes, pos >>
    /\ UNCHANGED << inputs, run_id, loc, streams, stream, agg_streams, sidx,
                    evs, all_events, result, warned, lookups, describes,
                    fetched, invocation, first >>

\* A variant whose body is the run identifier.
SuccessResultNamesRun == [statusCode |-> 200, body |-> run_id]

\* Lines 321-324: {'statusCode': 200, 'body': 'Manifest ETL complete'}
SuccessResult ==
    [ statusCode |-> 200,
      body |-> << "M", "a", "n", "i", "f", "e", "s", "t", " ", "E", "T", "L",
                  " ", "c", "o", "m", "p", "l", "e", "t", "e" >> ]

\* Lines 321-324.
HandlerReturn ==
    /\ pc = "process"
    /\ pos > Len(Flatten(all_events))
    /\ result' = SuccessResult
    /\ pc' = "returned"
    /\ UNCHANGED << inputs, store, run_id, loc, streams, stream, agg_streams,
                    sidx, evs, all_events, pos, err, warned, lookups,
                    describes, fetched, writes, invocation, first >>

\* The event bus delivers the same event again once the first invocation
\* ended: a new invocation with fresh locals, the bucket as it is.
Redeliver ==
    /\ pc \in {"returned", "raised"}
    /\ invocation = 1
    /\ invocation' = 2
    /\ first' = [ended |-> TRUE, store |-> store, pc |-> pc, result |-> result,
                 err |-> err]
    /\ FreshNext
    /\ UNCHANGED << inputs, store, writes >>

Next ==
    \/ HandlerStart
    \/ HandlerLocate
    \/ HandlerSelect
    \/ HandlerAggLocate
    \/ HandlerAggEvents
    \/ HandlerProcess
    \/ HandlerReturn
    \/ Redeliver

Spec == Init /\ [][Next]_vars

(***************************************************************************)
(* Properties of lambda_handler under Spec.                                *)
(***************************************************************************)
Ended == pc \in {"returned", "raised"}

\* The puts of invocation i, as indices of writes.
PutsOf(i) == { k \in 1..Len(writes) : writes[k].invocation = i }

KeysWritten(i) == { writes[k].key : k \in PutsOf(i) }

\* The inbound event carries detail.runId.
HasRunId == "detail" \in DOMAIN event.v /\ "runId" \in DOMAIN event.v["detail"].v

ArnOf(message) == message.doc.v["arn"].v

IsRunArn(arn) == Contains(arn, << ":", "r", "u", "n", "/" >>)
IsTaskArn(arn) == Contains(arn, << ":", "t", "a", "s", "k", "/" >>)

\* What the store must hold for a manifest: its fields coerced with the
\* schema of the class the handler treats it as.
ExpectedBody(message) ==
    convert_data_types(message.doc,
                       IF IsRunArn(ArnOf(message)) THEN RUN_MANIFEST_SCHEMA
                       ELSE TASK_MANIFEST_SCHEMA).val

\* The messages of the stream the handler selected.
SelectedMessages == logGroup[stream.logStreamName]

\* C1: when the same event is delivered again and the log group is
\* unchanged, no key appears in the store that the first invocation did not
\* leave, and once the second invocation ends the store equals the store
\* the first one left and both wrote the same set of keys.
C1_RedeliveryIdempotent ==
    invocation = 2 =>
        /\ DOMAIN store = DOMAIN first.store
        /\ Ended => /\ store = first.store
                    /\ KeysWritten(2) = KeysWritten(1)
                    /\ pc = first.pc
                    /\ result = first.result

\* The second invocation has ended after overwriting one key twice, with
\* different bodies.
C1_Witness ==
    /\ invocation = 2
    /\ pc = "returned"
    /\ \E j, k \in PutsOf(2) :
          /\ j < k
          /\ writes[j].key = writes[k].key
          /\ writes[j].body # writes[k].body

\* C3: with the configuration in place, an event without detail.runId ends
\* with statusCode 400 and no exception, and no Locator call, no
\* log-service request and no put was made.
C3_MissingRunIdIs400 ==
    (bucketSet /\ ~HasRunId /\ pc # "start") =>
        /\ pc = "returned"
        /\ result.statusCode = 400
        /\ err = "none"
        /\ lookups = 0
        /\ describes = 0
        /\ fetched = << >>
        /\ writes = << >>
        /\ store = << >>

C3_Witness ==
    /\ ~HasRunId
    /\ "detail" \in DOMAIN event.v
    /\ pc = "returned"
    /\ result.statusCode = 400

\* The identifier that follows `marker` in an arn, up to the next ':' or '/'.
IdAfter(arn, marker) ==
    LET at == CHOOSE k \in 0..(Len(arn) - Len(marker)) :
                  /\ \A i \in 1..Len(marker) : arn[k + i] = marker[i]
                  /\ \A j \in 0..(k - 1) :
                        \E i \in 1..Len(marker) : arn[j + i] # marker[i]
        rest == SubSeq(arn, at + Len(marker) + 1, Len(arn))
        stops == { i \in 1..Len(rest) : rest[i] \in {":", "/"} }
        stop == IF stops = {} THEN Len(rest) + 1
                ELSE CHOOSE i \in stops : \A j \in stops : i <= j
    IN  SubSeq(rest, 1, stop - 1)

RunsKey(id) ==
    S3_PREFIX \o << "/", "r", "u", "n", "s", "/" >> \o id \o << ".", "j", "s", "o", "n" >>

TasksKey(id) ==
    S3_PREFIX \o << "/", "t", "a", "s", "k", "s", "/" >> \o id
              \o << ".", "j", "s", "o", "n" >>

\* C2: every put is at <prefix>/runs/<id>.json for a Run record and at
\* <prefix>/tasks/<id>.json for a Task record, <id> being the run id or the
\* task id in the arn of the record that is written.
C2_KeyFromRecordId ==
    \A k \in 1..Len(writes) :
        LET arn == writes[k].body.v["arn"].v
        IN  writes[k].key =
                IF writes[k].kind = "Run"
                THEN RunsKey(IdAfter(arn, << ":", "r", "u", "n", "/" >>))
                ELSE TasksKey(IdAfter(arn, << ":", "t", "a", "s", "k", "/" >>))

\* C4: when the handler returns statusCode 200, every message of the
\* selected stream was parsed, is a Run or a Task manifest, and was put, in
\* order, with the fields coerced by the schema of its class; and for an
\* event of run 1 with one matching stream that holds one run manifest of
\* run 1, the invocation ends with 200 and the store holds exactly one
\* object, the coerced manifest at <prefix>/runs/1.json.
C4_SuccessMeansAllWritten ==
    /\ (pc = "returned" /\ result.statusCode = 200) =>
          /\ Cardinality(PutsOf(invocation)) = Len(SelectedMessages)
          /\ \A i \in 1..Len(SelectedMessages) :
                LET m == SelectedMessages[i]
                IN  /\ m.json
                    /\ IsRunArn(ArnOf(m)) \/ IsTaskArn(ArnOf(m))
                    /\ \E k \in PutsOf(invocation) :
                          /\ writes[k].pos = i
                          /\ writes[k].body = ExpectedBody(m)
                          /\ writes[k].key \in DOMAIN store
                          /\ \A j \in PutsOf(invocation) :
                                writes[j].pos < i => j < k
    /\ LET arn1 == << "a", ":", "r", "u", "n", "/", "1" >>
           matching == { n \in DOMAIN logGroup :
                           StartsWith(n, ManifestRunPrefix \o << "1" >>) }
       IN  ( /\ bucketSet
             /\ event = PyDict([detail |-> PyDict([runId |-> PyStr(<< "1" >>)])])
             /\ Cardinality(matching) = 1
             /\ \A n \in matching : logGroup[n] = << Manifest(arn1) >>
             /\ Ended )
           => /\ pc = "returned"
              /\ result.statusCode = 200
              /\ DOMAIN store = { RunsKey(<< "1" >>) }
              /\ store[RunsKey(<< "1" >>)] =
                    PyDict([ arn |-> PyStr(arn1),
                             cpus |-> PyStr(<< "4" >>),
                             digest |-> PyStr(<< "5" >>) ])

\* A 200 after a stream of two messages, fetched in two pages, one of them
\* a task manifest.
C4_Witness ==
    /\ pc = "returned"
    /\ result.statusCode = 200
    /\ Len(SelectedMessages) = 2
    /\ \E i \in 1..2 : ~IsRunArn(ArnOf(SelectedMessages[i]))

\* A message the handler cannot take: not JSON, or an arn of neither kind.
BadMessage(m) == ~m.json \/ (~IsRunArn(ArnOf(m)) /\ ~IsTaskArn(ArnOf(m)))

\* C5: when a message of the selected stream is not JSON or has an arn with
\* neither marker, the invocation never returns, it does not get past that
\* message, and no put is made for that message or a later one.
C5_BadRecordAborts ==
    stream # NoStream =>
        \A i \in 1..Len(SelectedMessages) :
            BadMessage(SelectedMessages[i]) =>
                /\ pc # "returned"
                /\ result.statusCode = 0
                /\ pos <= i
                /\ \A k \in PutsOf(invocation) : writes[k].pos < i
                /\ (pc = "raised" /\ pos = i) =>
                      err \in {"JSONDecodeError", "RuntimeError"}

\* The invocation failed on the first of two messages, a bad one, with a
\* good one after it.
C5_Witness ==
    /\ pc = "raised"
    /\ pos = 1
    /\ Len(SelectedMessages) = 2
    /\ BadMessage(SelectedMessages[1])
    /\ ~BadMessage(SelectedMessages[2])
    /\ PutsOf(invocation) = {}

\* The event names a run and no stream of the log group starts with
\* "manifest/run/<runId>".
NoMatch ==
    /\ bucketSet
    /\ HasRunId
    /\ \A n \in DOMAIN logGroup :
          ~StartsWith(n, ManifestRunPrefix \o event.v["detail"].v["runId"].v)

\* C6, as stated: when no stream matches, stream location itself fails,
\* with a no-matching-stream error.
C6_LocatorFailsOnNoMatch ==
    (NoMatch /\ pc \notin {"start", "locate"}) =>
        /\ pc = "raised"
        /\ err = "NoMatchingStreamError"

\* C6, amended: when no stream matches, find_log_streams_by_prefix returns
\* the empty sequence after one request; the invocation then fails with
\* the IndexError of streams[0], returning nothing, with one Locator call,
\* no get_log_events request and no put.
C6_NoMatchFailsAtSelection ==
    NoMatch =>
        /\ pc \in {"start", "locate", "select", "raised"}
        /\ pc = "select" => (loc.done /\ streams = << >>)
        /\ pc = "raised" => (err = "IndexError" /\ streams = << >>)
        /\ result.statusCode = 0
        /\ lookups <= 1
        /\ describes <= 1
        /\ fetched = << >>
        /\ PutsOf(invocation) = {}
        /\ ~warned

\* The invocation failed for want of a stream, in a log group that holds
\* events of another run.
C6_Witness ==
    /\ NoMatch
    /\ pc = "raised"
    /\ err = "IndexError"
    /\ \E n \in DOMAIN logGroup : logGroup[n] # << >>

\* C7: the handler works on the first stream the Locator returned and on
\* no other: every get_log_events request names it, every bucket is its
\* bucket, every put is of one of its messages; and a warning was logged
\* exactly when the Locator returned more than one stream.
C7_FirstStreamOnly ==
    /\ stream # NoStream =>
          /\ stream = streams[1]
          /\ \A i \in 1..Len(fetched) : fetched[i] = streams[1].logStreamName
          /\ \A i \in 1..Len(all_events) :
                /\ all_events[i].name = streams[1].logStreamName
                /\ Len(all_events[i].events) <= Len(logGroup[streams[1].logStreamName])
          /\ \A k \in PutsOf(invocation) :
                /\ writes[k].pos \in 1..Len(logGroup[streams[1].logStreamName])
                /\ writes[k].body =
                      ExpectedBody(logGroup[streams[1].logStreamName][writes[k].pos])
    /\ stream = NoStream => (fetched = << >> /\ PutsOf(invocation) = {})
    /\ pc \in {"start", "locate", "select"} => ~warned
    /\ pc \notin {"start", "locate", "select"} => (warned <=> Len(streams) > 1)

\* Two streams matched, both hold a message, and the handler returned
\* after a put and a warning.
C7_Witness ==
    /\ Len(streams) = 2
    /\ \A i \in 1..2 : logGroup[streams[i].logStreamName] # << >>
    /\ logGroup[streams[1].logStreamName] # logGroup[streams[2].logStreamName]
    /\ warned
    /\ pc = "returned"
    /\ PutsOf(invocation) # {}

\* C10, as stated: a record whose arn contains ":run/" is handled as a Run
\* record and one whose arn contains ":task/" as a Task record.
C10_EveryTaskArnIsTask ==
    \A k \in 1..Len(writes) :
        LET arn == writes[k].body.v["arn"].v
        IN  /\ IsRunArn(arn) => writes[k].kind = "Run"
            /\ IsTaskArn(arn) => writes[k].kind = "Task"

\* C10, amended: a record whose arn contains ":run/" is handled as a Run
\* record (run schema, run key); one whose arn contains ":task/" and not
\* ":run/" as a Task record (task schema, task key); a record with neither
\* is never put, and the handler raises on it.
C10_ClassifiedByArn ==
    /\ \A k \in PutsOf(invocation) :
          LET m == SelectedMessages[writes[k].pos]
              arn == ArnOf(m)
          IN  /\ IsRunArn(arn) \/ IsTaskArn(arn)
              /\ IsRunArn(arn) =>
                    /\ writes[k].kind = "Run"
                    /\ writes[k].key = RunsKey(run_id)
                    /\ writes[k].body =
                          convert_data_types(m.doc, RUN_MANIFEST_SCHEMA).val
              /\ (IsTaskArn(arn) /\ ~IsRunArn(arn)) =>
                    /\ writes[k].kind = "Task"
                    /\ writes[k].key = TasksKey(LastSegment(arn))
                    /\ writes[k].body =
                          convert_data_types(m.doc, TASK_MANIFEST_SCHEMA).val
    /\ (pc = "raised" /\ err = "RuntimeError") =>
          LET m == SelectedMessages[pos]
          IN  m.json /\ ~IsRunArn(ArnOf(m)) /\ ~IsTaskArn(ArnOf(m))
    /\ (pc \in {"process", "returned", "raised"} /\ stream # NoStream) =>
          \A i \in 1..Len(SelectedMessages) :
              (i < pos /\ SelectedMessages[i].json) =>
                  (IsRunArn(ArnOf(SelectedMessages[i]))
                     \/ IsTaskArn(ArnOf(SelectedMessages[i])))

\* A record whose arn has both markers was put, as a Run record.
C10_Witness ==
    \E k \in PutsOf(invocation) :
        /\ IsRunArn(ArnOf(SelectedMessages[writes[k].pos]))
        /\ IsTaskArn(ArnOf(SelectedMessages[writes[k].pos]))
        /\ writes[k].kind = "Run"
        /\ writes[k].key = RunsKey(run_id)

(***************************************************************************)
(* The two pagination loops against a stubbed collaborator, which answers  *)
(* each request with any page and any token of `stub`.  What it returns    *)
(* over all pages is finite; its tokens need not end.                      *)
(***************************************************************************)
StubTokens == { NoToken, Token(<< >>), Token(<< "a" >>), Token(<< "b" >>) }

StubStreams == { [logStreamName |-> n] : n \in StreamNames }

StubEvents == { [message |-> m] : m \in { Garbage } }

\* The limits find_log_streams_by_prefix is called with (0: None).
StubLimits == { 0, 1, 2 }

StubInit(label) ==
    /\ event = PyDict(NoFields)
    /\ bucketSet = TRUE
    /\ S3_PREFIX = << >>
    /\ logGroup = << >>
    /\ store = << >>
    /\ pc = label
    /\ run_id = << >>
    /\ streams = << >>
    /\ stream = NoStream
    /\ agg_streams = << >>
    /\ sidx = 0
    /\ all_events = << >>
    /\ pos = 0
    /\ result = NoResult
    /\ err = "none"
    /\ warned = FALSE
    /\ lookups = 0
    /\ describes = 0
    /\ fetched = << >>
    /\ writes = << >>
    /\ invocation = 1
    /\ first = NoFirst
    /\ stub \in (SUBSET StubTokens) \ { {} }
    /\ calls = 0
    /\ OthersIdle

\* find_log_streams_by_prefix(..., limit) on the stub.
InitLocator ==
    /\ StubInit("find_log_streams_by_prefix")
    /\ \E limit \in StubLimits : loc = LocatorInit(ManifestRunPrefix, limit)
    /\ evs = EventsInit

\* Lines 130-150: one pass of the loop; at the break, the return value.
StubDescribeLogStreams ==
    /\ pc = "find_log_streams_by_prefix"
    /\ ~loc.done
    /\ \E tok \in stub :
         \E page \in SeqsUpTo(StubStreams,
                              Min(StreamPageMax,
                                  MaxStubStreams - Len(loc.all_streams))) :
            LET next == LocatorStep(loc, [logStreams |-> page, nextToken |-> tok])
            IN  /\ loc' = next
                /\ streams' = IF next.done THEN LocatorResult(next) ELSE streams
                /\ pages' = IF page = << >> THEN pages ELSE Append(pages, page)
    /\ calls' = Min(calls + 1, MaxCalls)
    /\ UNCHANGED << event, bucketSet, S3_PREFIX, logGroup, stub, store, pc,
                    run_id, stream, agg_streams, sidx, evs, all_events, pos,
                    result, err, warned, lookups, describes, fetched, writes,
                    invocation, first, coerceVars, failed_puts, peer,
                    workflowVars, analyzerVars, replayVars >>

NextLocator == StubDescribeLogStreams

\* The loop runs on while it has not reached its break.
SpecLocator ==
    InitLocator /\ [][NextLocator]_vars /\ WF_vars(StubDescribeLogStreams)

\* The event pagination of one stream on the stub.
InitEvents ==
    /\ StubInit("get_log_events_by_stream_prefix")
    /\ loc = LocatorInit(<< >>, 0)
    /\ evs = EventsInit

\* Lines 223-241: one pass of the loop; at the break, the bucket is stored.
StubGetLogEvents ==
    /\ pc = "get_log_events_by_stream_prefix"
    /\ ~evs.done
    /\ \E tok \in stub :
         \E page \in SeqsUpTo(StubEvents,
                              Min(EventPageMax,
                                  MaxEvents - Len(evs.stream_events))) :
            LET next == EventsStep(evs, [events |-> page, nextForwardToken |-> tok])
            IN  /\ evs' = next
                /\ all_events' =
                      IF next.done
                      THEN PutBucket(all_events, ManifestRunPrefix, next.stream_events)
                      ELSE all_events
    /\ calls' = Min(calls + 1, MaxCalls)
    /\ UNCHANGED << event, bucketSet, S3_PREFIX, logGroup, stub, store, pc,
                    run_id, loc, streams, stream, agg_streams, sidx, pos,
                    result, err, warned, lookups, describes, fetched, writes,
                    invocation, first, others >>

NextEvents == StubGetLogEvents

SpecEvents ==
    InitEvents /\ [][NextEvents]_vars /\ WF_vars(StubGetLogEvents)

\* C8: a collaborator that answers every get_log_events request with the
\* same token is asked at most twice (once when that token is absent or
\* empty); and whatever the collaborator, the loop has ended after a
\* response whose token is absent or equals the token of its request.
C8_RepeatedTokenStops ==
    /\ (\E tok \in StubTokens : stub = {tok}) =>
          /\ calls <= 2
          /\ calls = 2 => evs.done
          /\ (~Truthy(CHOOSE tok \in stub : TRUE)) => calls <= 1
    /\ (calls > 0 /\ (evs.next_token.isNone \/ evs.next_token = evs.sent)) =>
          evs.done

\* The stub that always answers "a": the loop ended at the second response.
C8_Witness ==
    /\ stub = { Token(<< "a" >>) }
    /\ evs.done
    /\ calls = 2
    /\ evs.sent = Token(<< "a" >>)
    /\ evs.next_token = Token(<< "a" >>)

\* C9, as stated: called with a limit, find_log_streams_by_prefix always
\* returns, and returns at most `limit` streams, whatever the collaborator
\* answers.
C9_AlwaysReturns ==
    (loc.limit # 0) => <>(loc.done /\ Len(streams) <= loc.limit)

\* C9, amended: whenever find_log_streams_by_prefix called with a limit
\* returns, it returns at most `limit` streams, the first of those it was
\* given; it has returned after a response without a token or once `limit`
\* streams are accumulated, and asks again otherwise, also after a page that
\* carries a token and no streams.
C9_ReturnsAtMostLimit ==
    /\ (loc.done /\ loc.limit # 0) =>
          /\ Len(streams) <= loc.limit
          /\ Len(streams) = Min(loc.limit, Len(loc.all_streams))
          /\ \A i \in 1..Len(streams) : streams[i] = loc.all_streams[i]
    /\ (calls > 0 /\ loc.limit # 0) =>
          (loc.done <=> (~Truthy(loc.next_token)
                           \/ Len(loc.all_streams) >= loc.limit))

\* Three responses, the second an empty page with a token, and three
\* streams in all, cut to the limit of 2.
C9_Witness ==
    /\ loc.done
    /\ loc.limit = 2
    /\ calls = 3
    /\ Len(loc.all_streams) = 3
    /\ Len(streams) = 2

(***************************************************************************)
(* convert_data_types on its own: any record of a bounded set, with either *)
(* schema table.                                                           *)
(***************************************************************************)
\* Most fields of a record given to convert_data_types.
MaxFields == 2
\* Deepest nesting of mappings and sequences inside a field.
MaxDepth == 2

\* "cpus" is an int of the task schema and unknown to the run schema,
\* "name" is a str of both, "extra" and "tags" are in neither.
FieldNames == { "cpus", "name", "extra", "tags" }

\* What json.loads yields for a scalar: null, text of digits, other text,
\* a number.
Scalars == { PyNull, PyStr(<< "4" >>), PyStr(<< "x" >>), PyInt(5) }

\* The values of a field: scalars, and mappings and sequences of them.
RECURSIVE FieldValues(_)
FieldValues(depth) ==
    IF depth = 0 THEN Scalars
    ELSE Scalars
         \cup { PyDict([cpus |-> v]) : v \in FieldValues(depth - 1) }
         \cup { PyList(<< v >>) : v \in FieldValues(depth - 1) }

\* Records of at most MaxFields fields, at most one of which holds a
\* mapping or a sequence.
Records ==
    UNION { { PyDict(f) : f \in [names -> Scalars] }
            \cup { PyDict([f EXCEPT ![n] = v]) :
                      f \in [names -> Scalars], n \in names,
                      v \in FieldValues(MaxDepth) \ Scalars }
            : names \in { n \in SUBSET FieldNames : Cardinality(n) <= MaxFields } }

\* The variables of the manifest lambda_handler and of the stubbed loops,
\* at rest.
Idle(label) ==
    /\ logGroup = << >>
    /\ store = << >>
    /\ pc = label
    /\ run_id = << >>
    /\ loc = LocatorInit(<< >>, 0)
    /\ streams = << >>
    /\ stream = NoStream
    /\ agg_streams = << >>
    /\ sidx = 0
    /\ evs = EventsInit
    /\ all_events = << >>
    /\ pos = 0
    /\ result = NoResult
    /\ err = "none"
    /\ warned = FALSE
    /\ lookups = 0
    /\ describes = 0
    /\ fetched = << >>
    /\ writes = << >>
    /\ invocation = 1
    /\ first = NoFirst
    /\ stub = {}
    /\ calls = 0
    /\ failed_puts = << >>
    /\ peer = NoPeer

InitCoerce ==
    /\ Idle("convert_data_types")
    /\ WorkflowIdle
    /\ RestIdle
    /\ event = PyDict(NoFields)
    /\ bucketSet = TRUE
    /\ S3_PREFIX = << >>
    /\ data \in Records
    /\ type_mapping \in { RUN_MANIFEST_SCHEMA, TASK_MANIFEST_SCHEMA }
    /\ converted = NotCalled

\* Lines 51-69: the call returns the coerced record or raises.
ConvertDataTypes ==
    /\ pc = "convert_data_types"
    /\ converted' = convert_data_types(data, type_mapping)
    /\ pc' = IF convert_data_types(data, type_mapping).ok
             THEN "returned" ELSE "raised"
    /\ UNCHANGED << restVars, event, bucketSet, S3_PREFIX, logGroup, stub, calls, store,
                    run_id, loc, streams, stream, agg_streams, sidx, evs,
                    all_events, pos, result, err, warned, lookups, describes,
                    fetched, writes, invocation, first, data, type_mapping,
                    failed_puts, peer, workflowVars >>

NextCoerce == ConvertDataTypes

SpecCoerce == InitCoerce /\ [][NextCoerce]_vars

\* C11, as stated: every top-level field of the record whose name is not in
\* the schema has, in the returned record, the value it had.
C11_UnknownFieldsUntouched ==
    converted.ok =>
        \A key \in DOMAIN data.v :
            key \notin DOMAIN type_mapping =>
                converted.val.v[key] = data.v[key]

\* `after` is `before` with, at any depth, the same keys in every mapping,
\* the same length of every sequence, and the same value of every field
\* that is not named in the schema S and holds neither a mapping nor a
\* sequence, and of every such item of a sequence.
RECURSIVE FrameKept(_, _, _)
FrameKept(before, after, S) ==
    CASE before.t = "map" ->
            /\ after.t = "map"
            /\ DOMAIN after.v = DOMAIN before.v
            /\ \A key \in DOMAIN before.v :
                  key \notin DOMAIN S =>
                      IF before.v[key].t \in {"map", "list"}
                      THEN FrameKept(before.v[key], after.v[key], S)
                      ELSE after.v[key] = before.v[key]
      [] before.t = "list" ->
            /\ after.t = "list"
            /\ Len(after.v) = Len(before.v)
            /\ \A i \in 1..Len(before.v) :
                  IF before.v[i].t \in {"map", "list"}
                  THEN FrameKept(before.v[i], after.v[i], S)
                  ELSE after.v[i] = before.v[i]
      [] OTHER -> after = before

\* C11, amended: the returned record has the fields of the given one; a
\* field that is not named in the schema and holds neither a mapping nor a
\* sequence is unchanged, at every depth; a field that is not named in the
\* schema and holds a mapping or a sequence keeps its keys and its length,
\* and is itself coerced with the same schema.
C11_ScalarFrameKept ==
    converted.ok =>
        /\ FrameKept(data, converted.val, type_mapping)
        /\ \A key \in DOMAIN data.v :
              (key \notin DOMAIN type_mapping
                 /\ data.v[key] = PyDict([cpus |-> PyStr(<< "4" >>)])) =>
                  converted.val.v[key] =
                      PyDict([cpus |-> IF "cpus" \in DOMAIN type_mapping
                                       THEN PyInt(4) ELSE PyStr(<< "4" >>)])

\* A field the schema does not name came back changed: the mapping it holds
\* has a field the schema names; beside it a number the schema does not
\* name came back as it was.
C11_Witness ==
    /\ converted.ok
    /\ "extra" \in DOMAIN data.v
    /\ "extra" \notin DOMAIN type_mapping
    /\ converted.val.v["extra"] # data.v["extra"]
    /\ \E key \in DOMAIN data.v :
          /\ key \notin DOMAIN type_mapping
          /\ data.v[key] = PyInt(5)
          /\ converted.val.v[key] = PyInt(5)

\* C12, as stated: convert_data_types never fails; a field named in the
\* schema whose value cannot be converted to the declared type, whatever
\* the type of that value, keeps the value it had.
C12_NeverFails ==
    pc # "convert_data_types" =>
        /\ converted.ok
        /\ \A key \in DOMAIN data.v \cap DOMAIN type_mapping :
              (type_mapping[key] = "int" /\ data.v[key].t # "null"
                 /\ ~IntOf(data.v[key]).ok) =>
                  converted.val.v[key] = data.v[key]

\* C20: when convert_data_types returns, every top-level field that the
\* schema names holds null if it held null, the text of its value if the
\* schema declares str, and the integer its value reads as if the schema
\* declares int and the value reads as one; "4" under int is 4 and 5 under
\* str is "5".
C20_SchemaFieldsConverted ==
    converted.ok =>
        \A key \in DOMAIN data.v \cap DOMAIN type_mapping :
            LET value == data.v[key]
                after == converted.val.v[key]
            IN  /\ value.t = "null" => after = PyNull
                /\ (value.t # "null" /\ type_mapping[key] = "str") =>
                      /\ after.t = "str"
                      /\ after = StrOf(value)
                      /\ value = PyInt(5) => after = PyStr(<< "5" >>)
                /\ (value.t # "null" /\ type_mapping[key] = "int"
                      /\ IntOf(value).ok) =>
                      /\ after.t = "int"
                      /\ after = IntOf(value).val
                      /\ value = PyStr(<< "4" >>) => after = PyInt(4)

\* The task schema turned cpus "4" into 4 and left a null name null.
C20_Witness ==
    /\ converted.ok
    /\ type_mapping = TASK_MANIFEST_SCHEMA
    /\ data = PyDict([cpus |-> PyStr(<< "4" >>), name |-> PyNull])
    /\ converted.val = PyDict([cpus |-> PyInt(4), name |-> PyNull])

(***************************************************************************)
(* Further properties of lambda_handler under Spec.                        *)
(***************************************************************************)
\* C17: without DATA_LAKE_BUCKET the invocation raises ValueError at its
\* start: it returns no result, extracts no run identifier, calls the
\* Locator not once, sends no request to the log service and puts nothing.
C17_ConfigCheckedFirst ==
    ~bucketSet =>
        /\ pc \in {"start", "raised"}
        /\ pc = "raised" => err = "ValueError"
        /\ result = NoResult
        /\ run_id = << >>
        /\ lookups = 0
        /\ describes = 0
        /\ fetched = << >>
        /\ writes = << >>
        /\ store = << >>

\* The invocation failed for want of the bucket name, on an event that
\* names a run whose stream holds a message.
C17_Witness ==
    /\ ~bucketSet
    /\ pc = "raised"
    /\ err = "ValueError"
    /\ HasRunId
    /\ \E n \in DOMAIN logGroup :
          /\ StartsWith(n, ManifestRunPrefix \o event.v["detail"].v["runId"].v)
          /\ logGroup[n] # << >>

\* C16: the selected stream is a stream of the run the event names: its
\* name starts with "manifest/run/<runId>/".
C16_SelectedStreamIsOfRun ==
    stream # NoStream =>
        StartsWith(stream.logStreamName, ManifestRunPrefix \o run_id \o << "/" >>)

\* C18, as stated: the result of a successful invocation carries the run
\* identifier and the number of records that were put.
C18_SuccessSummarizes ==
    (pc = "returned" /\ result.statusCode = 200) =>
        /\ Contains(result.body, run_id)
        /\ Contains(result.body, NatToChars(Cardinality(PutsOf(invocation))))

\* C18, amended: the result of a successful invocation is the same for
\* every run and every number of records: statusCode 200 and the body
\* 'Manifest ETL complete', no other field.
C18_ConstantSuccessResult ==
    (pc = "returned" /\ HasRunId) =>
        /\ DOMAIN result = {"statusCode", "body"}
        /\ result.statusCode = 200
        /\ result.body = << "M", "a", "n", "i", "f", "e", "s", "t", " ", "E",
                            "T", "L", " ", "c", "o", "m", "p", "l", "e", "t",
                            "e" >>

\* Run 12 ended with a result after two puts.
C18_Witness ==
    /\ pc = "returned"
    /\ result.statusCode = 200
    /\ run_id = << "1", "2" >>
    /\ Cardinality(PutsOf(invocation)) = 2

(***************************************************************************)
(* lambda_handler with collaborators that may fail: every request to the   *)
(* log service and every put either succeeds, as under Spec, or raises     *)
(* botocore's ClientError.  No call of the handler is inside a try, apart  *)
(* from the extraction of runId.                                           *)
(***************************************************************************)
\* logs_client.describe_log_streams raises (line 136).
DescribeLogStreamsFails ==
    /\ pc \in {"locate", "agg_locate"}
    /\ describes' = describes + 1
    /\ pc' = "raised"
    /\ err' = "ClientError"
    /\ UNCHANGED << inputs, store, run_id, loc, streams, stream, agg_streams,
                    sidx, evs, all_events, pos, result, warned, lookups,
                    fetched, writes, invocation, first >>

\* logs_client.get_log_events raises (line 228).
GetLogEventsFails ==
    /\ pc = "agg_events"
    /\ fetched' = Append(fetched, agg_streams[sidx].logStreamName)
    /\ pc' = "raised"
    /\ err' = "ClientError"
    /\ UNCHANGED << inputs, store, run_id, loc, streams, stream, agg_streams,
                    sidx, evs, all_events, pos, result, warned, lookups,
                    describes, writes, invocation, first >>

\* A variant that stays at the record whose put raised, to put it again.
PutFailsRetried ==
    /\ pc = "process"
    /\ pos <= Len(Flatten(all_events))
    /\ LET todo == HandleMessage(Flatten(all_events)[pos].message, S3_PREFIX, run_id)
       IN  /\ todo.ok
           /\ failed_puts' = Append(failed_puts, [ invocation |-> invocation,
                                                   pos |-> pos,
                                                   key |-> todo.val.key ])
    /\ Len(failed_puts) < MaxEvents
    /\ UNCHANGED << restVars, event, bucketSet, S3_PREFIX, logGroup, stub, calls,
                    coerceVars, peer, workflowVars, store, pc, err, run_id, loc, streams, stream,
                    agg_streams, sidx, evs, all_events, pos, result, warned,
                    lookups, describes, fetched, writes, invocation, first >>

\* Lines 72-77 called from lines 310 and 315: s3_object.put raises; the
\* exception leaves write_json_to_s3, the two for loops and the handler.
PutFails ==
    /\ pc = "process"
    /\ pos <= Len(Flatten(all_events))
    /\ LET todo == HandleMessage(Flatten(all_events)[pos].message, S3_PREFIX, run_id)
       IN  /\ todo.ok
           /\ failed_puts' = Append(failed_puts, [ invocation |-> invocation,
                                                   pos |-> pos,
                                                   key |-> todo.val.key ])
    /\ pc' = "raised"
    /\ err' = "ClientError"
    /\ UNCHANGED << restVars, event, bucketSet, S3_PREFIX, logGroup, stub, calls,
                    coerceVars, peer, workflowVars, store, run_id, loc, streams, stream,
                    agg_streams, sidx, evs, all_events, pos, result, warned,
                    lookups, describes, fetched, writes, invocation, first >>

NextFaults ==
    \/ HandlerStart
    \/ HandlerLocate
    \/ HandlerSelect
    \/ HandlerAggLocate
    \/ HandlerAggEvents
    \/ HandlerProcess
    \/ HandlerReturn
    \/ DescribeLogStreamsFails
    \/ GetLogEventsFails
    \/ PutFails

SpecFaults == Init /\ [][NextFaults]_vars

\* C13: once a put has raised, the invocation has ended with that
\* exception and no result; it is the only put that raised; the record it
\* was for is the one the handler stopped at, and every put that succeeded
\* is of an earlier record; and no record is put twice in the invocation.
C13_FailedPutEndsInvocation ==
    /\ failed_puts # << >> =>
          /\ Len(failed_puts) = 1
          /\ pc = "raised"
          /\ err = "ClientError"
          /\ result = NoResult
          /\ pos = failed_puts[1].pos
          /\ \A k \in 1..Len(writes) : writes[k].pos < failed_puts[1].pos
          /\ failed_puts[1].key \in DOMAIN store =>
                \E k \in 1..Len(writes) :
                    /\ writes[k].key = failed_puts[1].key
                    /\ store[writes[k].key] = writes[k].body
    /\ \A j, k \in 1..Len(writes) : j # k => writes[j].pos # writes[k].pos

\* The put of the first of two records raised: the second was not put.
C13_Witness ==
    /\ failed_puts # << >>
    /\ failed_puts[1].pos = 1
    /\ Len(SelectedMessages) = 2
    /\ ~BadMessage(SelectedMessages[2])
    /\ store = << >>
    /\ pc = "raised"

\* C14, as stated: with the configuration in place the invocation always
\* ends by returning a result, of statusCode 200, 400 or 500, and of 500
\* when no stream matched.
C14_AlwaysStructuredResult ==
    (bucketSet /\ Ended) =>
        /\ pc = "returned"
        /\ result.statusCode \in {200, 400, 500}
        /\ NoMatch => result.statusCode = 500

\* C14, amended: the handler returns a result, of the two fields
\* statusCode and body, in two cases only: 400 when detail or detail.runId
\* is missing, 200 when every message of the selected stream was put.  It
\* never returns 500: when no stream matches, a request to the log service
\* or a put raises, or a message is not JSON or is of neither kind, the
\* invocation ends with the exception (IndexError, ClientError,
\* JSONDecodeError, RuntimeError) and returns nothing.
C14_ReturnsOrRaises ==
    /\ result.statusCode \in {0, 200, 400}
    /\ result.statusCode # 0 <=> pc = "returned"
    /\ pc = "returned" =>
          /\ DOMAIN result = {"statusCode", "body"}
          /\ err = "none"
          /\ result.statusCode = 400 <=> ~HasRunId
          /\ result.statusCode = 200 =>
                /\ failed_puts = << >>
                /\ \A i \in 1..Len(SelectedMessages) :
                      ~BadMessage(SelectedMessages[i])
    /\ pc = "raised" =>
          /\ result = NoResult
          /\ err \in {"ValueError", "IndexError", "ClientError",
                      "JSONDecodeError", "RuntimeError"}
          /\ err = "ValueError" <=> ~bucketSet
          /\ err = "IndexError" => NoMatch
          /\ err \in {"JSONDecodeError", "RuntimeError"} =>
                BadMessage(SelectedMessages[pos])
    /\ (NoMatch /\ Ended) => pc = "raised"
    /\ (Ended /\ stream # NoStream
          /\ \E i \in 1..Len(SelectedMessages) : BadMessage(SelectedMessages[i])) =>
          pc = "raised"
    /\ failed_puts # << >> => (pc = "raised" /\ err = "ClientError")

\* The invocation put a record, then ended on a record of neither kind
\* with the RuntimeError of the bare raise, returning nothing.
C14_Witness ==
    /\ pc = "raised"
    /\ err = "RuntimeError"
    /\ PutsOf(invocation) # {}
    /\ result = NoResult

(***************************************************************************)
(* Two invocations of lambda_handler for one event at the same time, each  *)
(* in an execution environment of its own: they share the log group, which *)
(* does not change, and the bucket.  One of them takes its steps while the *)
(* locals of the other are held in `peer`; they change places at any step. *)
(***************************************************************************)
\* The log group holds one stream of run 1, at most.
ConcurrentStreamNames == { ManifestRunPrefix \o << "1", "/", "a" >> }

InitConcurrent ==
    /\ event \in { e \in Events : ExtractRunId(e).ok }
    /\ bucketSet = TRUE
    /\ S3_PREFIX \in Prefixes
    /\ logGroup \in LogGroups(ConcurrentStreamNames, MaxEvents)
    /\ store = << >>
    /\ Fresh
    /\ writes = << >>
    /\ invocation = 1
    /\ first = NoFirst
    /\ stub = {}
    /\ calls = 0
    /\ OthersIdle

\* The other invocation takes the next steps.
Switch ==
    /\ peer' = [ pc |-> pc, run_id |-> run_id, loc |-> loc,
                 streams |-> streams, stream |-> stream,
                 agg_streams |-> agg_streams, sidx |-> sidx, evs |-> evs,
                 all_events |-> all_events, pos |-> pos, result |-> result,
                 err |-> err, warned |-> warned, lookups |-> lookups,
                 describes |-> describes, fetched |-> fetched ]
    /\ pc' = peer.pc
    /\ run_id' = peer.run_id
    /\ loc' = peer.loc
    /\ streams' = peer.streams
    /\ stream' = peer.stream
    /\ agg_streams' = peer.agg_streams
    /\ sidx' = peer.sidx
    /\ evs' = peer.evs
    /\ all_events' = peer.all_events
    /\ pos' = peer.pos
    /\ result' = peer.result
    /\ err' = peer.err
    /\ warned' = peer.warned
    /\ lookups' = peer.lookups
    /\ describes' = peer.describes
    /\ fetched' = peer.fetched
    /\ invocation' = 3 - invocation
    /\ UNCHANGED << restVars, event, bucketSet, S3_PREFIX, logGroup, stub, calls,
                    coerceVars, failed_puts, workflowVars, store, writes,
                    first >>

NextConcurrent ==
    \/ HandlerStart
    \/ HandlerLocate
    \/ HandlerSelect
    \/ HandlerAggLocate
    \/ HandlerAggEvents
    \/ HandlerProcess
    \/ HandlerReturn
    \/ Switch

SpecConcurrent == InitConcurrent /\ [][NextConcurrent]_vars

\* The last put of invocation i at `key`, as an index of writes.
LastPut(i, key) ==
    CHOOSE k \in PutsOf(i) :
        /\ writes[k].key = key
        /\ \A j \in PutsOf(i) : writes[j].key = key => j <= k

\* What the puts of invocation i leave in an empty bucket when no other
\* invocation writes: at each key the body of its last put there.
AloneStore(i) == [key \in KeysWritten(i) |-> writes[LastPut(i, key)].body]

BothEnded == Ended /\ peer.pc \in {"returned", "raised"}

\* C15: at every moment each object of the bucket is the whole body of one
\* put of one of the two invocations; and once both invocations have
\* ended, whatever the order their puts were made in, the bucket is the
\* bucket either of them leaves when it runs alone, and both ended alike.
C15_LastWriterWins ==
    /\ \A key \in DOMAIN store :
          \E k \in 1..Len(writes) :
              writes[k].key = key /\ writes[k].body = store[key]
    /\ BothEnded =>
          /\ store = AloneStore(1)
          /\ store = AloneStore(2)
          /\ pc = peer.pc
          /\ result = peer.result

\* Both invocations ended after their puts at one key alternated: each put
\* two different bodies there, and the first invocation's last put came
\* between the two puts of the second.
C15_Witness ==
    /\ BothEnded
    /\ Len(writes) = 4
    /\ writes[1].invocation # writes[2].invocation
    /\ writes[2].invocation = writes[3].invocation
    /\ \A k \in 1..4 : writes[k].key = writes[1].key
    /\ writes[1].body # writes[4].body
    /\ writes[2].body # writes[3].body

(***************************************************************************)
(* The workflow-registration handler, src/lambda/workflow/                 *)
(* lambda_function.py: validation of the event against event_schema, the   *)
(* lookups in the execution service, the put of the workflow record.       *)
(***************************************************************************)
\* event_schema: the required top-level fields and those of detail.
WorkflowTopNames ==
    { "version", "id", "detail-type", "source", "account", "time", "region",
      "resources", "detail" }

WorkflowDetailRequired == { "omicsVersion", "arn", "status", "workflowUuid" }

WorkflowDetailNames == WorkflowDetailRequired \cup { "workflowVersionName" }

\* "a:workflow/3"
WorkflowArn == << "a", ":", "w", "o", "r", "k", "f", "l", "o", "w", "/",
                  "3" >>

\* A detail with every field of the schema.
FullDetail ==
    [n \in WorkflowDetailNames |->
        CASE n = "arn" -> PyStr(WorkflowArn)
          [] n = "workflowVersionName" -> PyStr(<< "v", "1" >>)
          [] OTHER -> PyStr(<< "x" >>)]

\* Details with any of the fields missing, one whose arn is a number, and
\* a detail that is no mapping.
WorkflowDetails ==
    { PyDict([n \in names |-> FullDetail[n]]) : names \in SUBSET WorkflowDetailNames }
    \cup { PyDict([FullDetail EXCEPT !["arn"] = PyInt(5)]), PyStr(<< "x" >>) }

FullEvent(detail) ==
    [n \in WorkflowTopNames |->
        CASE n = "detail" -> detail
          [] n = "resources" -> PyList(<< PyStr(WorkflowArn) >>)
          [] OTHER -> PyStr(<< "x" >>)]

\* Events with every top-level field or with one of them missing.
WorkflowEvents ==
    { PyDict([n \in names |-> FullEvent(detail)[n]]) :
        names \in { WorkflowTopNames }
                  \cup { WorkflowTopNames \ {x} : x \in WorkflowTopNames },
        detail \in WorkflowDetails }

\* S3_PREFIX of the workflow handler: os.environ.get('S3_PREFIX') is None
\* when unset, which the key's f-string prints as "None".
WorkflowPrefixes ==
    { << "N", "o", "n", "e" >>,
      << "w", "o", "r", "k", "f", "l", "o", "w", "_", "r", "e", "c", "o",
         "r", "d", "s" >> }

\* validate(instance=event, schema=event_schema) raising no ValidationError
IsEventValid(ev) ==
    /\ ev.t = "map"
    /\ WorkflowTopNames \subseteq DOMAIN ev.v
    /\ \A n \in WorkflowTopNames \ { "resources", "detail" } : ev.v[n].t = "str"
    /\ ev.v["resources"].t = "list"
    /\ Len(ev.v["resources"].v) > 0 => ev.v["resources"].v[1].t = "str"
    /\ ev.v["detail"].t = "map"
    /\ WorkflowDetailRequired \subseteq DOMAIN ev.v["detail"].v
    /\ \A n \in DOMAIN ev.v["detail"].v \cap WorkflowDetailNames :
          ev.v["detail"].v[n].t = "str"

\* is_event_valid: True, or False after the ValidationError is printed
is_event_valid(ev) == IsEventValid(ev)

\* f'Error processing event: {str(e)}'
ErrorBody(message) ==
    << "E", "r", "r", "o", "r", " ", "p", "r", "o", "c", "e", "s", "s",
       "i", "n", "g", " ", "e", "v", "e", "n", "t", ":", " " >>
    \o message

\* Exception("Event data is invalid")
InvalidMessage ==
    << "E", "v", "e", "n", "t", " ", "d", "a", "t", "a", " ", "i", "s",
       " ", "i", "n", "v", "a", "l", "i", "d" >>

\* f"Error uploading to S3: {str(e)}"
UploadMessage(message) ==
    << "E", "r", "r", "o", "r", " ", "u", "p", "l", "o", "a", "d", "i",
       "n", "g", " ", "t", "o", " ", "S", "3", ":", " " >>
    \o message

\* The text of an exception of a boto3 client.
ClientErrorMessage == << "C", "l", "i", "e", "n", "t", "E", "r", "r", "o",
                         "r" >>

\* str(KeyError(key)): the key in single quotes
KeyErrorMessage(key) == << "'" >> \o key \o << "'" >>

\* f'Event successfully stored in S3: {file_name}'
StoredBody(name) ==
    << "E", "v", "e", "n", "t", " ", "s", "u", "c", "c", "e", "s", "s",
       "f", "u", "l", "l", "y", " ", "s", "t", "o", "r", "e", "d", " ",
       "i", "n", " ", "S", "3", ":", " " >>
    \o name

\* f'workflow_id_{workflow_id}.json'
WorkflowFileName(id) ==
    << "w", "o", "r", "k", "f", "l", "o", "w", "_", "i", "d", "_" >> \o id
    \o << ".", "j", "s", "o", "n" >>

\* f'workflow_id_{workflow_id}_version_{workflow_version_name}.json'
WorkflowVersionFileName(id, version) ==
    << "w", "o", "r", "k", "f", "l", "o", "w", "_", "i", "d", "_" >> \o id
    \o << "_", "v", "e", "r", "s", "i", "o", "n", "_" >> \o version
    \o << ".", "j", "s", "o", "n" >>

\* json.dumps(value, ...): the JSON text of the value, kept as that value
\* tagged as text.
JsonDumps(value) == [t |-> "str", v |-> << "j", "s", "o", "n" >>, of |-> value]

\* d[key] = value
DictSet(d, key, value) ==
    PyDict([k \in DOMAIN d.v \cup {key} |-> IF k = key THEN value ELSE d.v[k]])

\* del d[key]
DictDel(d, key) == PyDict([k \in DOMAIN d.v \ {key} |-> d.v[k]])

\* What get_workflow and get_workflow_version answer when they do not
\* raise: a workflow with and one without a parameter template.
OmicsResponses ==
    { PyDict([ name |-> PyStr(<< "w" >>), id |-> PyStr(<< "3" >>),
               parameterTemplate |-> PyDict(NoFields),
               ResponseMetadata |-> PyDict(NoFields) ]),
      PyDict([ name |-> PyStr(<< "w" >>), id |-> PyStr(<< "3" >>),
               ResponseMetadata |-> PyDict(NoFields) ]) }

InitWorkflow ==
    /\ Idle("workflow_start")
    /\ CoerceIdle
    /\ WorkflowIdle
    /\ RestIdle
    /\ event \in WorkflowEvents
    /\ bucketSet \in BOOLEAN
    /\ S3_PREFIX \in WorkflowPrefixes

\* A variant that reports a caught failure as a success.
FailedAs200(message) == [statusCode |-> 200, body |-> ErrorBody(message)]

\* The outer `except Exception`: a result of statusCode 500.
Failed500(message) == [statusCode |-> 500, body |-> ErrorBody(message)]

\* Lines 95-125: configuration, validation, the workflow id.
WorkflowStart ==
    /\ pc = "workflow_start"
    /\ IF ~LoadConfig(bucketSet).ok
       THEN /\ pc' = "raised"
            /\ err' = LoadConfig(bucketSet).err
            /\ UNCHANGED << result, workflow_id >>
       ELSE IF ~is_event_valid(event)
       THEN /\ pc' = "returned"
            /\ result' = Failed500(InvalidMessage)
            /\ UNCHANGED << err, workflow_id >>
       ELSE /\ pc' = "get_workflow"
            /\ workflow_id' = LastSegment(event.v["detail"].v["arn"].v)
            /\ UNCHANGED << err, result >>
    /\ UNCHANGED << restVars, event, bucketSet, S3_PREFIX, logGroup, stub, calls, store,
                    run_id, loc, streams, stream, agg_streams, sidx, evs,
                    all_events, pos, warned, lookups, describes, fetched,
                    writes, invocation, first, coerceVars, failed_puts, peer,
                    workflow_name, item, file_name, omics_calls >>

\* Lines 128-134 and 143-150: get_workflow, and without a version the item
\* of a parent workflow.
WorkflowGetWorkflow ==
    /\ pc = "get_workflow"
    /\ omics_calls' = Append(omics_calls, [op |-> "get_workflow", id |-> workflow_id])
    /\ \/ /\ pc' = "returned"
          /\ result' = Failed500(ClientErrorMessage)
          /\ UNCHANGED << workflow_name, item, file_name >>
       \/ \E workflow_details \in OmicsResponses :
             /\ workflow_name' = workflow_details.v["name"]
             /\ IF "workflowVersionName" \in DOMAIN event.v["detail"].v
                THEN /\ pc' = "get_workflow_version"
                     /\ item' = PyDict(NoFields)
                     /\ UNCHANGED << file_name, result >>
                ELSE /\ pc' = "put_object"
                     /\ item' = DictSet(DictDel(DictSet(workflow_details,
                                                        "versionName", PyNull),
                                                "id"),
                                        "workflowId", PyStr(workflow_id))
                     /\ file_name' = WorkflowFileName(workflow_id)
                     /\ UNCHANGED result
    /\ UNCHANGED << restVars, event, bucketSet, S3_PREFIX, logGroup, stub, calls, store,
                    run_id, loc, streams, stream, agg_streams, sidx, evs,
                    all_events, pos, err, warned, lookups, describes, fetched,
                    writes, invocation, first, coerceVars, failed_puts, peer,
                    workflow_id >>

\* Lines 135-141: get_workflow_version, and the item of a version.
WorkflowGetWorkflowVersion ==
    /\ pc = "get_workflow_version"
    /\ LET workflow_version_name ==
               LastSegment(event.v["detail"].v["workflowVersionName"].v)
       IN  /\ omics_calls' = Append(omics_calls,
                                    [ op |-> "get_workflow_version",
                                      id |-> workflow_id,
                                      versionName |-> workflow_version_name ])
           /\ \/ /\ pc' = "returned"
                 /\ result' = Failed500(ClientErrorMessage)
                 /\ UNCHANGED << item, file_name >>
              \/ \E workflow_version_details \in OmicsResponses :
                    /\ pc' = "put_object"
                    /\ item' = DictSet(workflow_version_details, "name",
                                       workflow_name)
                    /\ file_name' = WorkflowVersionFileName(workflow_id,
                                                            workflow_version_name)
                    /\ UNCHANGED result
    /\ UNCHANGED << restVars, event, bucketSet, S3_PREFIX, logGroup, stub, calls, store,
                    run_id, loc, streams, stream, agg_streams, sidx, evs,
                    all_events, pos, err, warned, lookups, describes, fetched,
                    writes, invocation, first, coerceVars, failed_puts, peer,
                    workflow_id, workflow_name >>

\* Lines 153-180: the item as it is stored, the put, the result.
WorkflowPutObject ==
    /\ pc = "put_object"
    /\ pc' = "returned"
    /\ LET stripped == DictDel(item, "ResponseMetadata")
           key == S3_PREFIX \o << "/" >> \o file_name
       IN  IF "parameterTemplate" \notin DOMAIN stripped.v
           THEN /\ result' = Failed500(KeyErrorMessage(
                                 << "p", "a", "r", "a", "m", "e", "t", "e",
                                    "r", "T", "e", "m", "p", "l", "a", "t",
                                    "e" >>))
                /\ item' = stripped
                /\ UNCHANGED << store, writes, failed_puts >>
           ELSE LET body == DictSet(stripped, "parameterTemplate",
                                    JsonDumps(stripped.v["parameterTemplate"]))
                IN  /\ item' = body
                    /\ \/ /\ store' = S3Put(store, key, body)
                          /\ writes' = Append(writes,
                                              [ invocation |-> invocation,
                                                pos |-> 0, kind |-> "Workflow",
                                                key |-> key, body |-> body ])
                          /\ result' = [ statusCode |-> 200,
                                         body |-> StoredBody(file_name) ]
                          /\ UNCHANGED failed_puts
                       \/ /\ failed_puts' = Append(failed_puts,
                                                   [ invocation |-> invocation,
                                                     pos |-> 0, key |-> key ])
                          /\ result' = Failed500(UploadMessage(ClientErrorMessage))
                          /\ UNCHANGED << store, writes >>
    /\ UNCHANGED << restVars, event, bucketSet, S3_PREFIX, logGroup, stub, calls, run_id,
                    loc, streams, stream, agg_streams, sidx, evs, all_events,
                    pos, err, warned, lookups, describes, fetched, invocation,
                    first, coerceVars, peer, workflow_id, workflow_name,
                    file_name, omics_calls >>

NextWorkflow ==
    \/ WorkflowStart
    \/ WorkflowGetWorkflow
    \/ WorkflowGetWorkflowVersion
    \/ WorkflowPutObject

SpecWorkflow == InitWorkflow /\ [][NextWorkflow]_vars

\* The event lacks a top-level field the schema requires, or its detail
\* lacks one of omicsVersion, arn, status, workflowUuid.
MissingRequired ==
    \/ ~(WorkflowTopNames \subseteq DOMAIN event.v)
    \/ /\ "detail" \in DOMAIN event.v
       /\ event.v["detail"].t = "map"
       /\ ~(WorkflowDetailRequired \subseteq DOMAIN event.v["detail"].v)

\* C19: with the configuration in place, an event that lacks a required
\* field ends with a result of statusCode 400, with no request to the
\* execution service and no put.
C19_InvalidEventIs400 ==
    (bucketSet /\ MissingRequired /\ pc # "workflow_start") =>
        /\ pc = "returned"
        /\ result.statusCode = 400
        /\ omics_calls = << >>
        /\ writes = << >>
        /\ failed_puts = << >>
        /\ store = << >>

(***************************************************************************)
(* Further properties of convert_data_types under SpecCoerce.              *)
(***************************************************************************)
\* `after` is `before` with every mapping inside it, wherever it is nested,
\* still a mapping whose fields named in S are converted.
RECURSIVE DeepCoerced(_, _, _)
DeepCoerced(before, after, S) ==
    CASE before.t = "map" ->
            /\ after.t = "map"
            /\ DOMAIN after.v = DOMAIN before.v
            /\ \A key \in DOMAIN before.v :
                  IF before.v[key].t \in {"map", "list"}
                  THEN DeepCoerced(before.v[key], after.v[key], S)
                  ELSE key \in DOMAIN S =>
                          after.v[key] = ConvertField(before.v[key], S[key]).val
      [] before.t = "list" ->
            /\ after.t = "list"
            /\ Len(after.v) = Len(before.v)
            /\ \A i \in 1..Len(before.v) :
                  before.v[i].t \in {"map", "list"} =>
                      DeepCoerced(before.v[i], after.v[i], S)
      [] OTHER -> TRUE

\* C21, as stated: in the returned record every mapping nested anywhere,
\* under any field, has its fields that the schema names coerced.
C21_EveryNestedMappingCoerced ==
    converted.ok => DeepCoerced(data, converted.val, type_mapping)

\* `after` is `before` coerced along the fields the schema does not name:
\* a field named in S holds the conversion of its whole value, a mapping or
\* a sequence included; any other field, and any item of a sequence, that
\* holds a mapping or a sequence is coerced in the same way; the rest is as
\* it was.
RECURSIVE CoercedOffSchema(_, _, _)
CoercedOffSchema(before, after, S) ==
    CASE before.t = "map" ->
            /\ after.t = "map"
            /\ DOMAIN after.v = DOMAIN before.v
            /\ \A key \in DOMAIN before.v :
                  IF key \in DOMAIN S
                  THEN after.v[key] =
                          (IF before.v[key].t = "null" THEN PyNull
                           ELSE IF S[key] = "str" THEN StrOf(before.v[key])
                           ELSE IF IntOf(before.v[key]).ok
                           THEN IntOf(before.v[key]).val
                           ELSE before.v[key])
                  ELSE CoercedOffSchema(before.v[key], after.v[key], S)
      [] before.t = "list" ->
            /\ after.t = "list"
            /\ Len(after.v) = Len(before.v)
            /\ \A i \in 1..Len(before.v) :
                  CoercedOffSchema(before.v[i], after.v[i], S)
      [] OTHER -> after = before

\* Along the fields S does not name and the items of sequences, `value`
\* holds a mapping in which a field S declares int holds a mapping or a
\* sequence.
RECURSIVE IntOfContainer(_, _)
IntOfContainer(value, S) ==
    CASE value.t = "map" ->
            \E key \in DOMAIN value.v :
                IF key \in DOMAIN S
                THEN S[key] = "int" /\ value.v[key].t \in {"map", "list"}
                ELSE IntOfContainer(value.v[key], S)
      [] value.t = "list" ->
            \E i \in 1..Len(value.v) : IntOfContainer(value.v[i], S)
      [] OTHER -> FALSE

\* C21, amended: the recursion follows the fields the schema does not name
\* and the items of sequences, to any depth, and coerces the fields the
\* schema names in every mapping it reaches; a mapping or sequence held by
\* a field the schema names is not entered: it is converted as one value,
\* to its text for a str column, and int() of it raises for an int column.
C21_RecursesOffSchemaOnly ==
    /\ converted.ok => CoercedOffSchema(data, converted.val, type_mapping)
    /\ pc # "convert_data_types" =>
          (~converted.ok <=> IntOfContainer(data, type_mapping))

\* A mapping inside a sequence under a field the schema does not name had
\* its cpus coerced.
C21_Witness ==
    /\ converted.ok
    /\ type_mapping = TASK_MANIFEST_SCHEMA
    /\ "extra" \in DOMAIN data.v
    /\ data.v["extra"] = PyList(<< PyDict([cpus |-> PyStr(<< "4" >>)]) >>)
    /\ converted.val.v["extra"] = PyList(<< PyDict([cpus |-> PyInt(4)]) >>)

(***************************************************************************)
(* Further properties of find_log_streams_by_prefix under SpecLocator.     *)
(***************************************************************************)
RECURSIVE Concat(_)
Concat(seqs) ==
    IF seqs = << >> THEN << >> ELSE Head(seqs) \o Concat(Tail(seqs))

\* C22: find_log_streams_by_prefix returns the streams in the order the
\* collaborator gave them, never re-sorted: what it returns is the
\* concatenation, in the order of the requests, of the pages it received,
\* cut to its first `limit` streams when called with a limit; called without
\* one it returns every stream of every page, and returns exactly at the
\* first response that carries no token (absent or empty).
C22_PagesInRequestOrder ==
    /\ loc.done =>
          streams = IF loc.limit # 0
                    THEN SubSeq(Concat(pages), 1,
                                Min(loc.limit, Len(Concat(pages))))
                    ELSE Concat(pages)
    /\ (calls > 0 /\ loc.limit = 0) => (loc.done <=> ~Truthy(loc.next_token))

\* Without a limit: two non-empty pages, three streams, returned in an order
\* that is sorted neither way.
C22_Witness ==
    /\ loc.done
    /\ loc.limit = 0
    /\ Len(pages) = 2
    /\ Len(streams) = 3
    /\ streams = Concat(pages)
    /\ StrLess(streams[1].logStreamName, streams[2].logStreamName)
    /\ StrLess(streams[3].logStreamName, streams[2].logStreamName)

(***************************************************************************)
(* lambda_handler against a log group that gains streams while the         *)
(* invocation runs: the log service creates a stream whenever a run        *)
(* starts to log, and the handler reads the group with several requests.   *)
(***************************************************************************)
RECURSIVE EventsIn(_)
EventsIn(group) ==
    IF DOMAIN group = {} THEN 0
    ELSE LET n == CHOOSE x \in DOMAIN group : TRUE
         IN  Len(group[n]) + EventsIn([x \in DOMAIN group \ {n} |-> group[x]])

\* A stream appears in the log group between two requests of the handler.
StreamAppears ==
    /\ pc \in {"locate", "select", "agg_locate", "agg_events", "process"}
    /\ \E n \in StreamNames \ DOMAIN logGroup :
         \E q \in SeqsUpTo(Messages, MaxEvents - EventsIn(logGroup)) :
            logGroup' = [x \in DOMAIN logGroup \cup {n} |->
                            IF x = n THEN q ELSE logGroup[x]]
    /\ UNCHANGED << event, bucketSet, S3_PREFIX, stub, calls, others, store, pc,
                    run_id, loc, streams, stream, agg_streams, sidx, evs,
                    all_events, pos, result, err, warned, lookups, describes,
                    fetched, writes, invocation, first >>

NextGrowing ==
    \/ HandlerStart
    \/ HandlerLocate
    \/ HandlerSelect
    \/ HandlerAggLocate
    \/ HandlerAggEvents
    \/ HandlerProcess
    \/ HandlerReturn
    \/ StreamAppears

SpecGrowing == Init /\ [][NextGrowing]_vars

\* C23: the mapping get_log_events_by_stream_prefix returns to the handler
\* has exactly one bucket, and its key is the name of streams[0], the stream
\* the handler selected, also when streams appeared in the log group
\* between the handler's lookup and the lookup inside
\* get_log_events_by_stream_prefix.
C23_BucketOfSelectedStream ==
    (pc = "process" \/ (pc \in {"returned", "raised"} /\ pos >= 1)) =>
        /\ Len(all_events) = 1
        /\ all_events[1].name = stream.logStreamName

(***************************************************************************)
(* The order of the steps of one invocation, under Spec.                   *)
(***************************************************************************)
\* The last put at `key`, as an index of writes.
LastWrite(key) ==
    CHOOSE k \in 1..Len(writes) :
        /\ writes[k].key = key
        /\ \A j \in 1..Len(writes) : writes[j].key = key => j <= k

\* C24: within one invocation the steps are strictly sequential.  No event
\* is fetched before both stream lookups have returned, and no stream is
\* looked up after; nothing is put before the pagination of the selected
\* stream has returned all its events, and nothing is fetched after; puts
\* happen one at a time, the n-th put of the invocation being that of the
\* n-th event of the stream; so the object at a key is the record of the
\* last event that maps to the key.
C24_StrictlySequential ==
    /\ [](/\ pc \in {"start", "locate", "select", "agg_locate"} =>
                (fetched = << >> /\ PutsOf(invocation) = {})
          /\ pc = "agg_events" => PutsOf(invocation) = {}
          /\ PutsOf(invocation) # {} =>
                /\ loc.done
                /\ Len(Flatten(all_events)) = Len(SelectedMessages)
          /\ \A k \in PutsOf(invocation) :
                /\ writes[k].pos = Cardinality({ j \in PutsOf(invocation) : j <= k })
                /\ writes[k].body = ExpectedBody(SelectedMessages[writes[k].pos])
          /\ \A key \in DOMAIN store :
                store[key] = writes[LastWrite(key)].body)
    /\ [][invocation' = invocation =>
            /\ describes' # describes =>
                  (fetched = << >> /\ PutsOf(invocation) = {})
            /\ fetched' # fetched =>
                  /\ PutsOf(invocation) = {}
                  /\ describes' = describes
                  /\ writes' = writes
            /\ writes' # writes =>
                  /\ Len(writes') = Len(writes) + 1
                  /\ fetched' = fetched
                  /\ describes' = describes]_vars

\* One invocation returned after putting the records of two events at one
\* key, with different bodies: the object is the record of the second.
C24_Witness ==
    /\ invocation = 1
    /\ pc = "returned"
    /\ Len(writes) = 2
    /\ Len(fetched) >= 2
    /\ writes[1].key = writes[2].key
    /\ writes[1].body # writes[2].body
    /\ store[writes[2].key] = writes[2].body

(***************************************************************************)
(* Further properties of the workflow lambda_handler under SpecWorkflow.   *)
(***************************************************************************)
\* The requests the handler makes to the execution service for its event.
LookupsNeeded ==
    IF "workflowVersionName" \in DOMAIN event.v["detail"].v THEN 2 ELSE 1

\* C25: the workflow lambda_handler puts an object only after the event was
\* found valid and get_workflow, and get_workflow_version when the event
\* names a version, have answered, and then it puts one object and returns
\* statusCode 200; a lookup or a put that fails ends the invocation with a
\* result of statusCode 500, no exception, and after a failed lookup
\* nothing was put and the store is as it was.  (The handler raises only
\* for a missing DATA_LAKE_BUCKET, before any request.)
C25_PutAfterLookups ==
    /\ writes # << >> =>
          /\ is_event_valid(event)
          /\ Len(writes) = 1
          /\ Len(omics_calls) = LookupsNeeded
          /\ omics_calls[1].op = "get_workflow"
          /\ LookupsNeeded = 2 => omics_calls[2].op = "get_workflow_version"
          /\ pc = "returned"
          /\ result.statusCode = 200
          /\ failed_puts = << >>
    /\ (pc = "returned" /\ result = Failed500(ClientErrorMessage)) =>
          /\ omics_calls # << >>
          /\ writes = << >>
          /\ failed_puts = << >>
          /\ store = << >>
    /\ failed_puts # << >> =>
          /\ pc = "returned"
          /\ result = Failed500(UploadMessage(ClientErrorMessage))
          /\ writes = << >>
    /\ pc = "returned" =>
          /\ result.statusCode \in {200, 500}
          /\ result.statusCode = 200 <=> writes # << >>
    /\ pc = "raised" =>
          (~bucketSet /\ err = "ValueError" /\ omics_calls = << >> /\ writes = << >>)

\* get_workflow answered and get_workflow_version failed: a result of
\* statusCode 500 and nothing put.
C25_Witness ==
    /\ pc = "returned"
    /\ Len(omics_calls) = 2
    /\ omics_calls[2].op = "get_workflow_version"
    /\ workflow_name # PyNull
    /\ result = Failed500(ClientErrorMessage)
    /\ store = << >>
    /\ writes = << >>

(***************************************************************************)
(* Termination of the event pagination under SpecEvents.                   *)
(***************************************************************************)
\* C26, as stated: the event pagination of a stream ends whatever tokens of
\* a finite set the collaborator answers with, also when they alternate
\* between two values.
C26_AlwaysTerminates == <>evs.done

\* C26, amended: the event pagination of a stream has ended exactly when
\* the last response carried no token (absent or empty) or the token of its
\* own request; so it ends for a collaborator that answers with at most one
\* token value, and goes on for as long as every response carries a token
\* other than the one just sent, as with tokens that alternate between two
\* values.
C26_EndsOnRepeatOnly ==
    /\ [](calls > 0 =>
            (evs.done <=> (~Truthy(evs.next_token) \/ evs.next_token = evs.sent)))
    /\ (Cardinality({ tok \in stub : Truthy(tok) }) <= 1) => <>evs.done

\* Tokens "a" and "b" in turn: after MaxCalls responses the loop is still
\* asking.
C26_Witness ==
    /\ stub = { Token(<< "a" >>), Token(<< "b" >>) }
    /\ calls = MaxCalls
    /\ ~evs.done
    /\ evs.sent = Token(<< "a" >>)
    /\ evs.next_token = Token(<< "b" >>)

(***************************************************************************)
(* What a failed invocation leaves in the bucket, under SpecFaults.        *)
(***************************************************************************)
\* C27: when an invocation, started on an empty bucket, fails at the k-th
\* event of the stream (the event is not JSON, is of neither class, or its
\* put raises), the records of events 1..k-1 were put, in order, and are
\* still there: the bucket holds exactly the objects those k-1 puts made,
\* each key with the body of the last put at it, and nothing of event k or
\* of a later one.
C27_NoRollback ==
    (pc = "raised" /\ pos >= 1) =>
        /\ Len(writes) = pos - 1
        /\ \A j \in 1..(pos - 1) :
              /\ writes[j].pos = j
              /\ writes[j].body = ExpectedBody(SelectedMessages[j])
        /\ DOMAIN store = { writes[j].key : j \in 1..(pos - 1) }
        /\ \A key \in DOMAIN store : store[key] = writes[LastWrite(key)].body

\* The second of two events is not JSON: the invocation failed and the
\* record of the first is in the bucket.
C27_Witness ==
    /\ pc = "raised"
    /\ err = "JSONDecodeError"
    /\ pos = 2
    /\ failed_puts = << >>
    /\ Len(writes) = 1
    /\ DOMAIN store = { writes[1].key }
    /\ store[writes[1].key] = ExpectedBody(SelectedMessages[1])

(***************************************************************************)
(* Records whose arn carries both markers, under Spec.                     *)
(***************************************************************************)
BothMarkers(message) ==
    message.json /\ IsRunArn(ArnOf(message)) /\ IsTaskArn(ArnOf(message))

\* C28: ":run/" is tested before ":task/": a record whose arn contains both
\* is coerced with the run schema and put at the run key of the event's
\* run, not with the task schema and not at a task key, and the handler
\* does not stop at it.
C28_RunBeforeTask ==
    /\ \A k \in PutsOf(invocation) :
          LET m == SelectedMessages[writes[k].pos]
          IN  BothMarkers(m) =>
                /\ writes[k].kind = "Run"
                /\ writes[k].key = S3KeyRun(S3_PREFIX, run_id)
                /\ writes[k].key # S3KeyTask(S3_PREFIX, LastSegment(ArnOf(m)))
                /\ writes[k].body =
                      convert_data_types(m.doc, RUN_MANIFEST_SCHEMA).val
                /\ writes[k].body #
                      convert_data_types(m.doc, TASK_MANIFEST_SCHEMA).val
    /\ (pc = "raised" /\ pos >= 1) => ~BothMarkers(SelectedMessages[pos])

\* The stream holds one record, with both markers: the invocation returned
\* and the bucket holds one object, at the run key.
C28_Witness ==
    /\ invocation = 1
    /\ pc = "returned"
    /\ result.statusCode = 200
    /\ Len(SelectedMessages) = 1
    /\ BothMarkers(SelectedMessages[1])
    /\ DOMAIN store = { S3KeyRun(S3_PREFIX, run_id) }
    /\ store[S3KeyRun(S3_PREFIX, run_id)] =
          convert_data_types(SelectedMessages[1].doc, RUN_MANIFEST_SCHEMA).val

(***************************************************************************)
(* The run analyzer handler, src/lambda/run_analyzer_v2/                   *)
(* lambda_function.py: the run identifier, run_analyzer_main, the upload   *)
(* of its output file.                                                     *)
(***************************************************************************)
\* S3_PREFIX of the run analyzer function: "run_analyzer_output", or empty.
AnalyzerPrefixes ==
    { << >>,
      << "r", "u", "n", "_", "a", "n", "a", "l", "y", "z", "e", "r", "_",
         "o", "u", "t", "p", "u", "t" >> }

\* f'{run_id}_run_analyzer_output.csv'
OutputFileName(id) ==
    id \o << "_", "r", "u", "n", "_", "a", "n", "a", "l", "y", "z", "e", "r",
             "_", "o", "u", "t", "p", "u", "t", ".", "c", "s", "v" >>

\* PREFIX + f'/{output_file_name}'
AnalyzerKey(prefix, name) == prefix \o << "/" >> \o name

\* The file run_analyzer_main writes for a run.
AnalyzerOutput(id) == PyStr(<< "c", "s", "v", " " >> \o id)

\* What an earlier invocation may have left at a key.
StaleOutput == PyStr(<< "o", "l", "d" >>)

\* The bucket before the invocation: empty, or with the output of a run
\* uploaded earlier.
AnalyzerStores(prefix) ==
    { << >> }
    \cup { S3Put(<< >>, AnalyzerKey(prefix, OutputFileName(r)), StaleOutput)
           : r \in RunIds }

\* json.dumps(f'Run analyzer completed for run {run_id}, uploaded to ...')
CompletedBody(id, name) ==
    << "\"", "c", "o", "m", "p", "l", "e", "t", "e", "d", " " >> \o id
       \o << " " >> \o name \o << "\"" >>

InitAnalyzer ==
    /\ event \in Events
    /\ bucketSet \in BOOLEAN
    /\ S3_PREFIX \in AnalyzerPrefixes
    /\ store \in AnalyzerStores(S3_PREFIX)
    /\ logGroup = << >>
    /\ pc = "analyzer_start"
    /\ run_id = << >>
    /\ loc = LocatorInit(<< >>, 0)
    /\ streams = << >>
    /\ stream = NoStream
    /\ agg_streams = << >>
    /\ sidx = 0
    /\ evs = EventsInit
    /\ all_events = << >>
    /\ pos = 0
    /\ result = NoResult
    /\ err = "none"
    /\ warned = FALSE
    /\ lookups = 0
    /\ describes = 0
    /\ fetched = << >>
    /\ writes = << >>
    /\ invocation = 1
    /\ first = NoFirst
    /\ stub = {}
    /\ calls = 0
    /\ OthersIdle

\* What the handler's steps leave alone.
analyzerFrame ==
    << event, bucketSet, S3_PREFIX, logGroup, stub, calls, loc, streams,
       stream, agg_streams, sidx, evs, all_events, pos, warned, lookups,
       describes, fetched, invocation, first, coerceVars, peer, workflowVars,
       pages, replayVars >>

\* Lines 27-49: the configuration, the run identifier, the file name.
\* os.environ['DATA_LAKE_BUCKET'] raises KeyError when unset; the bare
\* except around event['detail']['runId'] ends in `raise("...")`, the raise
\* of a str, which is a TypeError.
AnalyzerStart ==
    /\ pc = "analyzer_start"
    /\ IF ~bucketSet
       THEN /\ pc' = "raised"
            /\ err' = "KeyError"
            /\ UNCHANGED << run_id, output_file_name >>
       ELSE IF ~ExtractRunId(event).ok
       THEN /\ pc' = "raised"
            /\ err' = "TypeError"
            /\ UNCHANGED << run_id, output_file_name >>
       ELSE /\ run_id' = StrOf(ExtractRunId(event).val).v
            /\ output_file_name' = OutputFileName(StrOf(ExtractRunId(event).val).v)
            /\ pc' = "run_analyzer"
            /\ UNCHANGED err
    /\ UNCHANGED << analyzerFrame, store, writes, failed_puts, result,
                    output_file, printed >>

\* Lines 51-57: run_analyzer_main writes the file, or raises and the
\* handler raises it again.
AnalyzerRun ==
    /\ pc = "run_analyzer"
    /\ \/ /\ output_file' = TRUE
          /\ pc' = "upload"
          /\ UNCHANGED err
       \/ /\ pc' = "raised"
          /\ err' = "Exception"
          /\ UNCHANGED output_file
    /\ UNCHANGED << analyzerFrame, store, writes, failed_puts, result, run_id,
                    output_file_name, printed >>

\* Lines 59-69 and 11-25: upload_file_to_s3 uploads the file and prints, or
\* catches the exception of upload_file and prints it; it returns None
\* either way, and the handler returns its result.
AnalyzerUpload ==
    /\ pc = "upload"
    /\ LET key == AnalyzerKey(S3_PREFIX, output_file_name)
       IN  \/ /\ store' = S3Put(store, key, AnalyzerOutput(run_id))
              /\ writes' = Append(writes, [ invocation |-> invocation,
                                            pos |-> 0, kind |-> "Analyzer",
                                            key |-> key,
                                            body |-> AnalyzerOutput(run_id) ])
              /\ printed' = Append(printed, "uploaded successfully")
              /\ UNCHANGED failed_puts
           \/ /\ failed_puts' = Append(failed_puts, [ invocation |-> invocation,
                                                      pos |-> 0, key |-> key ])
              /\ printed' = Append(printed, "Error uploading file")
              /\ UNCHANGED << store, writes >>
    /\ result' = [ statusCode |-> 200,
                   body |-> CompletedBody(run_id, output_file_name) ]
    /\ pc' = "returned"
    /\ UNCHANGED << analyzerFrame, err, run_id, output_file_name, output_file >>

NextAnalyzer ==
    \/ AnalyzerStart
    \/ AnalyzerRun
    \/ AnalyzerUpload

SpecAnalyzer == InitAnalyzer /\ [][NextAnalyzer]_vars

\* C29: the run analyzer handler returns statusCode 200 only when this
\* invocation uploaded the output file of the run: the upload did not fail
\* and the bucket holds the file at PREFIX/<runId>_run_analyzer_output.csv.
C29_CompletedMeansUploaded ==
    (pc = "returned" /\ result.statusCode = 200) =>
        /\ failed_puts = << >>
        /\ Len(writes) = 1
        /\ writes[1].key = AnalyzerKey(S3_PREFIX, output_file_name)
        /\ store[writes[1].key] = AnalyzerOutput(run_id)

(***************************************************************************)
(* The replay script src/scripts/hydrate_workflow_records.py: main invokes *)
(* the workflow lambda_handler once per payload, synchronously, through    *)
(* invoke_lambda_and_wait (the same function as in reprocess_runs.py).     *)
(***************************************************************************)
\* The payloads main invokes the function with, at most.
MaxPayloads == 2

\* The payloads main prepares: for a workflow and for a version of it;
\* "region" is os.environ.get('AWS_DEFAULT_REGION'), None when unset.
ReplayPayloads ==
    { PyDict([FullEvent(PyDict([n \in names |-> FullDetail[n]]))
                EXCEPT !["region"] = region]) :
        names \in { WorkflowDetailRequired, WorkflowDetailNames },
        region \in { PyStr(<< "x" >>), PyNull } }

\* What lambda_client.invoke answers with: it raises, or it returns a
\* response with a StatusCode, a FunctionError when the handler raised,
\* and the Payload, which is what the handler returned.
InvokeRaised == [ raised |-> TRUE, StatusCode |-> 0, FunctionError |-> FALSE,
                  Payload |-> NoResult ]

InvokeResponse(ended, returned) ==
    [ raised |-> FALSE, StatusCode |-> 200, FunctionError |-> ended = "raised",
      Payload |-> returned ]

\* Lines 83-112: False for an exception, a StatusCode other than 200 or a
\* FunctionError; True otherwise, whatever the payload.
invoke_lambda_and_wait(response) ==
    IF response.raised THEN FALSE
    ELSE IF response.StatusCode # 200 THEN FALSE
    ELSE IF response.FunctionError THEN FALSE
    ELSE TRUE

InitReplay ==
    /\ Idle("replay_next")
    /\ CoerceIdle
    /\ WorkflowIdle
    /\ pages = << >>
    /\ AnalyzerIdle
    /\ event = PyDict(NoFields)
    /\ bucketSet \in BOOLEAN
    /\ S3_PREFIX \in WorkflowPrefixes
    /\ payloads_to_invoke \in SeqsUpTo(ReplayPayloads, MaxPayloads) \ { << >> }
    /\ next_payload = 1
    /\ invoked = << >>
    /\ failed_payloads = << >>

\* What the script's steps leave alone.
replayFrame ==
    << bucketSet, S3_PREFIX, logGroup, stub, calls, store, run_id, loc,
       streams, stream, agg_streams, sidx, evs, all_events, pos, warned,
       lookups, describes, fetched, writes, invocation, first, coerceVars,
       failed_puts, peer, omics_calls, pages, analyzerVars, payloads_to_invoke >>

\* Lines 88-92 and 217-221: the next payload is sent: the function starts
\* on it, or invoke raises and the payload is counted as failed.
ReplayInvoke ==
    /\ pc = "replay_next"
    /\ next_payload <= Len(payloads_to_invoke)
    /\ \/ /\ event' = payloads_to_invoke[next_payload]
          /\ pc' = "workflow_start"
          /\ result' = NoResult
          /\ err' = "none"
          /\ workflow_id' = << >>
          /\ workflow_name' = PyNull
          /\ item' = PyDict(NoFields)
          /\ file_name' = << >>
          /\ UNCHANGED << next_payload, invoked, failed_payloads >>
       \/ /\ invoked' = Append(invoked,
                                [ value |-> invoke_lambda_and_wait(InvokeRaised),
                                  response |-> InvokeRaised ])
          /\ failed_payloads' = Append(failed_payloads,
                                       payloads_to_invoke[next_payload])
          /\ next_payload' = next_payload + 1
          /\ UNCHANGED << event, pc, result, err, workflowVars >>
    /\ UNCHANGED replayFrame

\* Lines 94-109 and 220-226: the function ended; invoke_lambda_and_wait
\* returns, and main appends the payload to failed_payloads on False.
ReplayReturn ==
    /\ pc \in {"returned", "raised"}
    /\ LET response == InvokeResponse(pc, result)
           value == invoke_lambda_and_wait(response)
       IN  /\ invoked' = Append(invoked, [ value |-> value, response |-> response ])
           /\ failed_payloads' =
                 IF value THEN failed_payloads
                 ELSE Append(failed_payloads, payloads_to_invoke[next_payload])
    /\ next_payload' = next_payload + 1
    /\ pc' = "replay_next"
    /\ UNCHANGED << replayFrame, event, result, err, workflowVars >>

\* Line 227: every payload was sent; the count of failed ones is printed.
ReplayDone ==
    /\ pc = "replay_next"
    /\ next_payload > Len(payloads_to_invoke)
    /\ pc' = "replay_done"
    /\ UNCHANGED << replayFrame, event, result, err, workflowVars,
                    next_payload, invoked, failed_payloads >>

NextReplay ==
    \/ ReplayInvoke
    \/ WorkflowStart
    \/ WorkflowGetWorkflow
    \/ WorkflowGetWorkflowVersion
    \/ WorkflowPutObject
    \/ ReplayReturn
    \/ ReplayDone

SpecReplay == InitReplay /\ [][NextReplay]_vars

\* C30: invoke_lambda_and_wait returns True only for an invocation whose
\* handler completed its work: when the handler returned a result of
\* statusCode 400 or 500 the call returns False and main counts the payload
\* among failed_payloads.
C30_FailureResultIsFailed ==
    /\ \A i \in 1..Len(invoked) :
          invoked[i].value =>
              /\ ~invoked[i].response.raised
              /\ ~invoked[i].response.FunctionError
              /\ invoked[i].response.Payload.statusCode = 200
    /\ Len(failed_payloads) =
          Cardinality({ i \in 1..Len(invoked) :
                          \/ invoked[i].response.raised
                          \/ invoked[i].response.FunctionError
                          \/ invoked[i].response.Payload.statusCode # 200 })

====
